---- MODULE Spec2Model ----
(***************************************************************************)
(* Model of run_emu_android: the orchestration entrypoint main(), the      *)
(* build driver build_and_run_android_emulator(), the command runner       *)
(* run_command() and the text classifier that selects repairs.             *)
(*                                                                         *)
(* External tools (flutter, adb, emulator, the file system) are the        *)
(* environment: their exit codes, their output and the existence of files  *)
(* are chosen nondeterministically where the code observes them.           *)
(***************************************************************************)
EXTENDS Integers, Sequences, FiniteSets, TLC

(***************************************************************************)
(* Bounds of the model.                                                    *)
(***************************************************************************)
\* Largest number of virtual devices `emulator -list-avds` reports.
MaxEmulators == 1
\* Longest build output, in text fragments, given to the classifier.
MaxOutLen == 3
\* Most `flutter build apk` commands one run of build_apk is followed through.
MaxApkBuilds == 2

(***************************************************************************)
(* Text.  A piece of tool output is a sequence of text fragments, printed  *)
(* with one space between them; a substring test is a membership test on   *)
(* the fragments.                                                          *)
(***************************************************************************)
NdkConfiguredMsg == "Your project is configured with Android NDK"
NdkRequiresMsg == "requires Android NDK"
\* Fragments that match the group ([0-9.]+) when they follow NdkRequiresMsg.
NdkVersionTexts == {"27.0.12077973", "23.1.7779620"}
\* What does not match it (the message is followed by other words).
OtherText == "(see the log)"

KotlinDslKeywords == {"Kotlin DSL", ".kts"}
JavaGradleKeywords == {"Unsupported class file major version", "incompatible with the Java"}
GradleCacheKeywords ==
    { "Could not read workspace metadata from", "metadata.bin",
      "Error resolving plugin [id: 'dev.flutter.flutter-plugin-loader'",
      "Multiple build operations failed" }

\* The fragments build outputs are made of in this model.
OutFragments ==
    { NdkConfiguredMsg, NdkRequiresMsg, "27.0.12077973", "23.1.7779620",
      ".kts", "Unsupported class file major version",
      "Could not read workspace metadata from", OtherText }

\* Every output of at most MaxOutLen fragments.
Outputs == UNION { [1..n -> OutFragments] : n \in 0..MaxOutLen }

\* Python: `keyword in text`.
Contains(text, keyword) == \E i \in 1..Len(text) : text[i] = keyword

ContainsAny(text, keywords) == \E k \in keywords : Contains(text, k)

\* Python's None (no text at all), and str() of a value that is None or a text.
None == <<"<NoneType>">>
Str(v) == IF v = None THEN <<"None">> ELSE v

\* For comparison: a run_command that hands the text of a failed command back.
run_command_withOutput(rc, text, show_output, show_progress, exc) ==
    IF exc THEN [ok |-> FALSE, out |-> None]
    ELSE IF rc # 0 THEN [ok |-> FALSE, out |-> text]
    ELSE [ok |-> TRUE, out |-> IF ~show_output THEN text ELSE None]

(***************************************************************************)
(* utils.run_command: (success, output).  rc is the exit status of the     *)
(* command, text what it printed, exc whether starting it raised.          *)
(***************************************************************************)
run_command(rc, text, show_output, show_progress, exc) ==
    IF exc THEN [ok |-> FALSE, out |-> None]
    ELSE IF rc # 0 /\ show_output THEN [ok |-> FALSE, out |-> None]
    ELSE [ok |-> TRUE, out |-> IF ~show_output THEN text ELSE None]

(***************************************************************************)
(* Python values returned by the build driver: a bool, or a tuple          *)
(* (status, output).                                                       *)
(***************************************************************************)
PyBool(b) == [tuple |-> FALSE, status |-> b, out |-> None]
PyTuple(b, o) == [tuple |-> TRUE, status |-> b, out |-> o]

(***************************************************************************)
(* emulator.boot_emulator.  running: adb or ps shows a running emulator;   *)
(* startRc: exit status of the start command.  The readiness poll ends by  *)
(* itself (boot completed, or the wait budget used up) and returns True.   *)
(***************************************************************************)
boot_emulator(running, startRc) ==
    IF running THEN [ok |-> TRUE, ran |-> {"adb devices"}]
    ELSE IF ~run_command(startRc, <<>>, TRUE, FALSE, FALSE).ok
         THEN [ok |-> FALSE, ran |-> {"adb devices", "emulator -avd"}]
         ELSE [ok |-> TRUE, ran |-> {"adb devices", "emulator -avd"}]

(***************************************************************************)
(* build.build_and_run_android_emulator.  env is what the environment does *)
(* in this invocation: running, startRc (boot), cleanRc, pubRc (flutter    *)
(* clean / pub get), device (adb lists an emulator id), runRc and run2Rc   *)
(* (flutter run -d <id>, then plain flutter run), text (what a failing     *)
(* flutter run prints).  The result: ret, the Python value returned; ran,  *)
(* the commands issued; printed, the text of the failing app launch.       *)
(***************************************************************************)
BuildEnvs ==
    [ running : BOOLEAN, startRc : {0, 1}, cleanRc : {0, 1}, pubRc : {0, 1},
      device : BOOLEAN, runRc : {0, 1}, run2Rc : {0, 1} ]

build_and_run_android_emulator(verbose, no_clean, env, text) ==
    LET boot == boot_emulator(env.running, env.startRc)
        clean == run_command(env.cleanRc, <<>>, verbose, FALSE, FALSE)
        pub == run_command(env.pubRc, <<>>, verbose, FALSE, FALSE)
        cleanRan == IF no_clean THEN {} ELSE {"flutter clean"}
        run1 == run_command(env.runRc, text, TRUE, TRUE, FALSE)
        run2 == run_command(env.run2Rc, text, TRUE, TRUE, FALSE)
        upToRun == boot.ran \cup cleanRan \cup
                   {"flutter pub get", "check_and_fix_ndk_versions", "flutter run"}
    IN  IF ~boot.ok
        THEN [ret |-> PyBool(FALSE), ran |-> boot.ran, printed |-> <<>>]
        ELSE IF ~no_clean /\ ~clean.ok
        THEN [ret |-> PyBool(FALSE), ran |-> boot.ran \cup cleanRan, printed |-> <<>>]
        ELSE IF ~pub.ok
        THEN [ret |-> PyBool(FALSE), ran |-> boot.ran \cup cleanRan \cup {"flutter pub get"},
              printed |-> <<>>]
        ELSE IF env.device
        THEN [ret |-> PyBool(run1.ok), ran |-> upToRun,
              printed |-> IF run1.ok THEN <<>> ELSE text]
        ELSE IF run1.ok
        THEN [ret |-> PyBool(TRUE), ran |-> upToRun, printed |-> <<>>]
        ELSE [ret |-> PyBool(run2.ok), ran |-> upToRun,
              printed |-> IF run2.ok THEN <<>> ELSE text]

\* Every result an invocation can have when a failing launch prints `text`.
BuildResults(verbose, no_clean, text) ==
    { build_and_run_android_emulator(verbose, no_clean, env, text) : env \in BuildEnvs }

(***************************************************************************)
(* main(): what it takes from the value the build driver returned.         *)
(***************************************************************************)
build_result_status(build_result) == build_result.status

build_error_output_of(build_result) ==
    IF build_result.tuple THEN Str(build_result.out) ELSE <<>>

(***************************************************************************)
(* main(): the classifier of the captured text.                            *)
(***************************************************************************)
detect_gradle_cache_issue(error_message) == ContainsAny(error_message, GradleCacheKeywords)

kotlin_dsl_error_of(text) == ContainsAny(text, KotlinDslKeywords)

java_gradle_error_of(text) == ContainsAny(text, JavaGradleKeywords)

ndk_version_error_of(text) ==
    Contains(text, NdkConfiguredMsg) /\ Contains(text, NdkRequiresMsg)

\* re.search(r'requires Android NDK ([0-9.]+)'): the positions that match.
NdkMatches(text) ==
    { i \in 1..(Len(text) - 1) : text[i] = NdkRequiresMsg /\ text[i + 1] \in NdkVersionTexts }

DefaultNdkVersion == "27.0.12077973"

\* group(1) of the first match, or the default version.
required_ndk_version_of(text) ==
    IF NdkMatches(text) = {} THEN DefaultNdkVersion
    ELSE text[CHOOSE i \in NdkMatches(text) : \A j \in NdkMatches(text) : i <= j]

Classify(text) ==
    [ kotlin_dsl_error |-> kotlin_dsl_error_of(text),
      java_gradle_error |-> java_gradle_error_of(text),
      ndk_version_error |-> ndk_version_error_of(text),
      gradle_cache_error |-> detect_gradle_cache_issue(text) ]

\* Python truth value of what the build driver returned (`if build_and_run...(...)`).
Truthy(v) == IF v.tuple THEN TRUE ELSE v.status

(***************************************************************************)
(* emulator.select_emulator.  emulator: the --emulator index (0: not       *)
(* given); n: the number of listed devices; answer: what is typed at the   *)
(* prompt when no index is given (-1: Ctrl+C).  0 stands for None.         *)
(***************************************************************************)
select_emulator(emulator, n, answer) ==
    IF n = 0 THEN 0
    ELSE IF emulator # 0
         THEN IF 0 <= emulator - 1 /\ emulator - 1 < n THEN emulator ELSE 0
         ELSE IF answer = -1 THEN 0 ELSE answer

(***************************************************************************)
(* main(): the repair cascade.  The steps in the order of the code, and    *)
(* the labels appended to tried_fixes.                                     *)
(***************************************************************************)
CascadeSteps == {"ndk", "kotlin", "java", "plugin", "cache", "regen"}

\* A different order, for comparison: the Java/Gradle step before the Kotlin DSL step.
CascadeNext_swapped(step) ==
    CASE step = "ndk" -> "java"
      [] step = "java" -> "kotlin"
      [] step = "kotlin" -> "plugin"
      [] step = "plugin" -> "cache"
      [] step = "cache" -> "regen"
      [] OTHER -> "exhausted"

CascadeNext(step) ==
    CASE step = "ndk" -> "kotlin"
      [] step = "kotlin" -> "java"
      [] step = "java" -> "plugin"
      [] step = "plugin" -> "cache"
      [] step = "cache" -> "regen"
      [] OTHER -> "exhausted"

\* The position of a step in the order of the code.
Rank(step) ==
    CASE step = "ndk" -> 1
      [] step = "kotlin" -> 2
      [] step = "java" -> 3
      [] step = "plugin" -> 4
      [] step = "cache" -> 5
      [] step = "regen" -> 6
      [] OTHER -> 7

\* The labels (the code writes them in Japanese).
FixLabel(step) ==
    CASE step = "ndk" -> "NDK version fix"
      [] step = "kotlin" -> "Kotlin DSL fix"
      [] step = "java" -> "Java/Gradle compatibility fix"
      [] step = "plugin" -> "Vibration plugin fix"
      [] OTHER -> "Gradle cache fix"

\* The last resort runs only after some fix was recorded.
RegenGuard(fixes) == Len(fixes) > 0

(***************************************************************************)
(* State.                                                                  *)
(***************************************************************************)
VARIABLES
    pc,                   \* position in main()
    cur,                  \* the cascade step being considered or retried
    args,                 \* the parsed command line
    fs,                   \* files outside the project: does each exist
    proj,                 \* files of the project, as the cascade finds them
    mutated,              \* paths created, changed or removed by this run
    emulators,            \* number of devices get_available_emulators listed
    selected,             \* selected device (0: none)
    calls,                \* functions main() called so far
    builds,               \* invocations of build_and_run_android_emulator
    buildOk,              \* some invocation reported success
    lastBuild,            \* result of the latest invocation
    printed,              \* what the failing initial app launch printed
    build_error_output,   \* the text main() scans
    flags,                \* the issue flags computed from it
    required_ndk_version, \* target of the NDK repair
    java_info_err,        \* `java -version` printed an incompatibility message
    tried_fixes,          \* labels of the fixes tried
    applied,              \* repairs applied, in order
    considered,           \* cascade steps whose condition was evaluated
    retried,              \* cascade steps whose retry of the build was run
    failedCheck,          \* the environment check that failed ("none": none)
    log,                  \* the error log file written (NoLog: none)
    logAttempts,          \* executions of the log-writing block
    exitCode,             \* -1 while running
    apkRc,                \* exit status of the last `flutter build apk` (-1: none ran)
    unit,                 \* the function run on its own ("main": none), and where it is
    input,                \* what it is given
    output                \* what it returned and left behind

vars ==
    << pc, cur, args, fs, proj, mutated, emulators, selected, calls, builds, buildOk,
       lastBuild, printed, build_error_output, flags, required_ndk_version,
       java_info_err, tried_fixes, applied, considered, retried, failedCheck, log,
       logAttempts, exitCode, apkRc, unit, input, output >>

\* The state of a function that is run on its own.
unitVars == << unit, input, output >>

\* The state of main().
mainVars ==
    << pc, cur, args, fs, proj, mutated, emulators, selected, calls, builds, buildOk,
       lastBuild, printed, build_error_output, flags, required_ndk_version,
       java_info_err, tried_fixes, applied, considered, retried, failedCheck, log,
       logAttempts, exitCode, apkRc >>

\* No function is run on its own: main() runs.
NoUnit == unit = "main" /\ input = <<>> /\ output = <<>>

Args ==
    [ list : BOOLEAN, build_apk : BOOLEAN, fix_gradle : BOOLEAN, no_clean : BOOLEAN,
      verbose : BOOLEAN, emulator : {0, 1, MaxEmulators + 1} ]

NoLog == [kind |-> "none", tried |-> <<>>, text |-> <<>>]
NoBuild == [ret |-> PyBool(FALSE), ran |-> {}, printed |-> <<>>]
NoFlags == Classify(<<>>)
NoProj == [settingsKts |-> FALSE, appKts |-> FALSE, pubspec |-> FALSE]

\* What a failing `flutter run` prints, in this model.
PrintedSamples ==
    { <<OtherText>>,
      <<NdkConfiguredMsg, NdkRequiresMsg, "27.0.12077973">>,
      <<"Unsupported class file major version">>,
      <<"Could not read workspace metadata from">>,
      <<".kts">> }

Init ==
    /\ pc = "check_flutter"
    /\ cur = "none"
    /\ args \in Args
    /\ fs \in [outputDir : BOOLEAN, sdkLink : BOOLEAN]
    /\ proj = NoProj
    /\ mutated = {}
    /\ emulators = 0
    /\ selected = 0
    /\ calls = {}
    /\ builds = 0
    /\ buildOk = FALSE
    /\ lastBuild = NoBuild
    /\ printed = <<>>
    /\ build_error_output = <<>>
    /\ flags = NoFlags
    /\ required_ndk_version = DefaultNdkVersion
    /\ java_info_err = FALSE
    /\ tried_fixes = <<>>
    /\ applied = <<>>
    /\ considered = <<>>
    /\ retried = <<>>
    /\ failedCheck = "none"
    /\ log = NoLog
    /\ logAttempts = 0
    /\ exitCode = -1
    /\ apkRc = -1
    /\ NoUnit

\* For comparison: a main() that always reports success.
Return_zero(code) == pc' = "done" /\ exitCode' = 0

\* `return code` from main().
Return(code) == pc' = "done" /\ exitCode' = code

cascadeVars ==
    << cur, proj, builds, buildOk, lastBuild, printed, build_error_output, flags,
       required_ndk_version, java_info_err, tried_fixes, applied, considered, retried,
       log, logAttempts >>

(***************************************************************************)
(* env_check.setup_android_paths: the convenience link in the home         *)
(* directory is created when it is missing (linkOk: os.symlink worked; a   *)
(* failure is caught).                                                     *)
(***************************************************************************)
setup_android_paths(f, linkOk) ==
    IF ~f.sdkLink /\ linkOk THEN [f EXCEPT !.sdkLink = TRUE] ELSE f

\* utils.prepare_output_directory: os.makedirs(..., exist_ok=True).
prepare_output_directory(f) == [f EXCEPT !.outputDir = TRUE]

\* The paths whose existence differs between two states of fs.
Changed(f, g) ==
    (IF f.sdkLink # g.sdkLink THEN {"~/android-sdk"} ELSE {}) \cup
    (IF f.outputDir # g.outputDir THEN {"output/android_emulator"} ELSE {})

(***************************************************************************)
(* main(): the environment checks.  A failing check returns 1.             *)
(***************************************************************************)
\* For comparison: a main() that ignores the result of a check.
AfterCheck_ignored(ok, next) == pc' = next /\ exitCode' = exitCode

\* What main() does with the result of a check.
AfterCheck(ok, next) == IF ok THEN pc' = next /\ exitCode' = exitCode ELSE Return(1)

\* History: which check failed.
Failed(ok, name) == failedCheck' = IF ok THEN failedCheck ELSE name

CheckFlutter ==
    /\ pc = "check_flutter"
    /\ \E ok \in BOOLEAN : AfterCheck(ok, "check_sdk") /\ Failed(ok, "flutter")
    /\ calls' = calls \cup {"check_flutter_installation"}
    /\ UNCHANGED << args, fs, mutated, emulators, selected >>
    /\ UNCHANGED cascadeVars
    /\ UNCHANGED << apkRc, unitVars >>

CheckSdk ==
    /\ pc = "check_sdk"
    /\ \E ok \in BOOLEAN, linkOk \in BOOLEAN :
          /\ AfterCheck(ok, "check_project")
          /\ Failed(ok, "sdk")
          /\ fs' = IF ok THEN setup_android_paths(fs, linkOk) ELSE fs
    /\ mutated' = mutated \cup Changed(fs, fs')
    /\ calls' = calls \cup {"check_android_sdk"}
    /\ UNCHANGED << args, emulators, selected >>
    /\ UNCHANGED cascadeVars
    /\ UNCHANGED << apkRc, unitVars >>

CheckProject ==
    /\ pc = "check_project"
    /\ \E ok \in BOOLEAN : AfterCheck(ok, "prepare_output") /\ Failed(ok, "project")
    /\ calls' = calls \cup {"check_project_directory"}
    /\ UNCHANGED << args, fs, mutated, emulators, selected >>
    /\ UNCHANGED cascadeVars
    /\ UNCHANGED << apkRc, unitVars >>

PrepareOutput ==
    /\ pc = "prepare_output"
    /\ fs' = prepare_output_directory(fs)
    /\ mutated' = mutated \cup Changed(fs, fs')
    /\ calls' = calls \cup {"prepare_output_directory"}
    /\ pc' = "mode"
    /\ UNCHANGED << args, emulators, selected, exitCode >>
    /\ UNCHANGED << cascadeVars, failedCheck >>
    /\ UNCHANGED << apkRc, unitVars >>

(***************************************************************************)
(* main.build_apk, as --build-apk runs it.  rcs: exit statuses of the      *)
(* successive `flutter build apk` commands; apkFiles: .apk files are in    *)
(* the output directory of the build tool; fixOk: fix_ndk_version returned *)
(* True.  A failure that run_command reports carries no output (None).     *)
(***************************************************************************)
RECURSIVE build_apk(_, _, _, _, _)
build_apk(verbose, rcs, apkFiles, text, fixOk) ==
    LET result == run_command(Head(rcs), text, verbose, FALSE, FALSE)
        error_output == Str(result.out)
    IN  IF ~result.ok
        THEN IF Contains(error_output, NdkRequiresMsg) /\ fixOk /\ Len(rcs) > 1
             THEN build_apk(verbose, Tail(rcs), apkFiles, text, fixOk)
             ELSE FALSE
        ELSE apkFiles

\* How many `flutter build apk` commands that run of build_apk issues.
RECURSIVE build_apk_commands(_, _, _, _)
build_apk_commands(verbose, rcs, text, fixOk) ==
    LET result == run_command(Head(rcs), text, verbose, FALSE, FALSE)
        error_output == Str(result.out)
    IN  IF ~result.ok /\ Contains(error_output, NdkRequiresMsg) /\ fixOk /\ Len(rcs) > 1
        THEN 1 + build_apk_commands(verbose, Tail(rcs), text, fixOk)
        ELSE 1

ApkMode ==
    /\ pc = "mode"
    /\ args.build_apk
    /\ \E rcs \in [1..MaxApkBuilds -> {0, 1}], apkFiles \in BOOLEAN, fixOk \in BOOLEAN,
          text \in PrintedSamples :
          /\ Return(IF build_apk(args.verbose, rcs, apkFiles, text, fixOk) THEN 0 ELSE 1)
          /\ apkRc' = rcs[build_apk_commands(args.verbose, rcs, text, fixOk)]
    /\ calls' = calls \cup {"check_flutter_plugins", "fix_build_gradle_kts", "build_apk",
                             "flutter pub get", "flutter build apk"}
    /\ mutated' = mutated \cup {"android/"}
    /\ UNCHANGED << args, fs, emulators, selected >>
    /\ UNCHANGED << cascadeVars, failedCheck >>
    /\ UNCHANGED unitVars

\* --fix-gradle: clean the caches, rewrite settings.gradle, return 0.
FixGradleMode ==
    /\ pc = "mode"
    /\ ~args.build_apk /\ args.fix_gradle
    /\ Return(0)
    /\ calls' = calls \cup {"clean_gradle_cache", "fix_gradle_plugin_loader_issue"}
    /\ mutated' = mutated \cup {"android/"}
    /\ UNCHANGED << args, fs, emulators, selected >>
    /\ UNCHANGED << cascadeVars, failedCheck >>
    /\ UNCHANGED << apkRc, unitVars >>

(***************************************************************************)
(* main(): enumerate the devices, list them, select one.                   *)
(***************************************************************************)
Enumerate ==
    /\ pc = "mode"
    /\ ~args.build_apk /\ ~args.fix_gradle
    /\ \E n \in 0..MaxEmulators, linkOk \in BOOLEAN :
          /\ emulators' = n
          /\ fs' = setup_android_paths(fs, linkOk)
    /\ mutated' = mutated \cup Changed(fs, fs')
    /\ calls' = calls \cup {"get_available_emulators", "adb devices", "emulator -list-avds"}
    /\ pc' = "listed"
    /\ UNCHANGED << args, selected, exitCode >>
    /\ UNCHANGED << cascadeVars, failedCheck >>
    /\ UNCHANGED << apkRc, unitVars >>

\* `if args.list or not emulators: return 0 if emulators else 1`
ListExitCode(n) == IF n > 0 THEN 0 ELSE 1

ListExit ==
    /\ pc = "listed"
    /\ args.list \/ emulators = 0
    /\ Return(ListExitCode(emulators))
    /\ UNCHANGED << args, fs, mutated, emulators, selected, calls >>
    /\ UNCHANGED << cascadeVars, failedCheck >>
    /\ UNCHANGED << apkRc, unitVars >>

SelectEmulator ==
    /\ pc = "listed"
    /\ ~(args.list \/ emulators = 0)
    /\ \E answer \in (1..emulators) \cup {-1} :
          selected' = select_emulator(args.emulator, emulators, answer)
    /\ IF selected' = 0 THEN Return(1) ELSE pc' = "prebuild" /\ exitCode' = exitCode
    /\ calls' = calls \cup {"select_emulator"}
    /\ UNCHANGED << args, fs, mutated, emulators >>
    /\ UNCHANGED << cascadeVars, failedCheck >>
    /\ UNCHANGED << apkRc, unitVars >>

(***************************************************************************)
(* main(): the steps before the first build, inside the try block:         *)
(* check_flutter_plugins, fix_build_gradle_kts, auto_fix_gradle_issues,    *)
(* get_java_version_info.  raised: one of them raised (input() at the      *)
(* plugin prompt, os.makedirs in clean_gradle_cache); p: the project files *)
(* they leave; j: the Java version text holds an incompatibility message.  *)
(***************************************************************************)
Prebuild ==
    /\ pc = "prebuild"
    /\ \E raised \in BOOLEAN, p \in [settingsKts : BOOLEAN, appKts : BOOLEAN, pubspec : BOOLEAN],
          j \in BOOLEAN :
          IF raised
          THEN /\ p = NoProj /\ ~j
               /\ pc' = "except"
               /\ UNCHANGED << proj, java_info_err >>
          ELSE /\ pc' = "build0"
               /\ proj' = p
               /\ java_info_err' = j
    /\ calls' = calls \cup {"check_flutter_plugins", "fix_build_gradle_kts",
                             "auto_fix_gradle_issues", "clean_gradle_cache"}
    /\ mutated' = mutated \cup {"android/"}
    /\ UNCHANGED << cur, args, fs, emulators, selected, builds, buildOk, lastBuild, printed,
                    build_error_output, flags, required_ndk_version, tried_fixes, applied,
                    considered, retried, failedCheck, log, logAttempts, exitCode >>
    /\ UNCHANGED << apkRc, unitVars >>

(***************************************************************************)
(* main(): the first build.  Success returns 0; a failure keeps what main  *)
(* takes as the error output and goes on to classify it.                   *)
(***************************************************************************)
InitialBuild ==
    /\ pc = "build0"
    /\ \E text \in PrintedSamples :
       \E r \in BuildResults(args.verbose, args.no_clean, text) :
          /\ lastBuild' = r
          /\ printed' = r.printed
          /\ build_error_output' = build_error_output_of(r.ret)
          /\ buildOk' = build_result_status(r.ret)
          /\ calls' = calls \cup {"build_and_run_android_emulator"}
          /\ IF build_result_status(r.ret)
             THEN Return(0)
             ELSE pc' = "classify" /\ exitCode' = exitCode
    /\ builds' = builds + 1
    /\ mutated' = mutated \cup {"android/"}
    /\ UNCHANGED << cur, args, fs, proj, emulators, selected, flags, required_ndk_version,
                    java_info_err, tried_fixes, applied, considered, retried, failedCheck,
                    log, logAttempts >>
    /\ UNCHANGED << apkRc, unitVars >>

\* Lines 1017-1025: the issue flags, and the empty list of tried fixes.
ClassifyFailure ==
    /\ pc = "classify"
    /\ flags' = Classify(build_error_output)
    /\ tried_fixes' = <<>>
    /\ pc' = "consider"
    /\ cur' = "ndk"
    /\ UNCHANGED << args, fs, proj, mutated, emulators, selected, calls, builds, buildOk,
                    lastBuild, printed, build_error_output, required_ndk_version,
                    java_info_err, applied, considered, retried, failedCheck, log,
                    logAttempts, exitCode >>
    /\ UNCHANGED << apkRc, unitVars >>

(***************************************************************************)
(* The repairs.                                                            *)
(***************************************************************************)
\* main.fix_kotlin_dsl_issues.  s, a: how the file operations on
\* settings.gradle.kts and on app/build.gradle.kts end.  The backup copies, the
\* renames and the writes of the replacement files are outside any try block.
KotlinSettingsEnds == {"ok", "caught", "raise"}
KotlinAppEnds == {"ok", "raise_backup", "raise_write"}

fix_kotlin_dsl_issues(p, s, a) ==
    LET afterS == IF p.settingsKts /\ s = "ok" THEN [p EXCEPT !.settingsKts = FALSE] ELSE p
    IN  IF p.settingsKts /\ s = "raise" THEN [proj |-> p, raised |-> TRUE]
        ELSE IF ~p.appKts THEN [proj |-> afterS, raised |-> FALSE]
        ELSE IF a = "ok" THEN [proj |-> [afterS EXCEPT !.appKts = FALSE], raised |-> FALSE]
        ELSE IF a = "raise_backup" THEN [proj |-> afterS, raised |-> TRUE]
        ELSE [proj |-> [afterS EXCEPT !.appKts = FALSE], raised |-> TRUE]

\* plugin_helper.fix_vibration_plugin: True when a dependency fetch succeeded.
\* ioErr: a file operation raised (caught inside); pub1Rc, pub2Rc: exit statuses
\* of `flutter pub get` with the first and with the second pinned version.
fix_vibration_plugin(p, ioErr, pub1Rc, pub2Rc) ==
    IF ~p.pubspec THEN FALSE
    ELSE IF ioErr THEN FALSE
    ELSE IF run_command(pub1Rc, <<>>, TRUE, FALSE, FALSE).ok THEN TRUE
    ELSE run_command(pub2Rc, <<>>, TRUE, FALSE, FALSE).ok

\* The condition of each step that has one (the plugin step has none).
kotlin_condition(p, f) == p.settingsKts \/ p.appKts \/ f.kotlin_dsl_error

java_condition(f, j) == f.java_gradle_error \/ j

(***************************************************************************)
(* main(): the cascade.  Consider* evaluates the condition of a step and   *)
(* applies its repair; RetryBuild is the build that follows a repair.      *)
(***************************************************************************)
\* The step has no repair to apply: go on to the next step.
Skip(step) ==
    /\ pc' = "consider"
    /\ cur' = CascadeNext(step)

\* For comparison: the fix is recorded but the build is not retried.
Recorded_noRetry(step) ==
    /\ tried_fixes' = Append(tried_fixes, FixLabel(step))
    /\ Skip(step)

\* A repair was applied and recorded: retry the build.
Recorded(step) ==
    /\ tried_fixes' = Append(tried_fixes, FixLabel(step))
    /\ pc' = "retry"
    /\ cur' = cur

\* An exception leaves the cascade for the handler of main().
Raise ==
    /\ pc' = "except"
    /\ cur' = cur

considerFrame ==
    << args, fs, emulators, selected, builds, buildOk, lastBuild, printed,
       build_error_output, flags, java_info_err, retried, failedCheck, log, logAttempts,
       exitCode >>

ConsiderNdk ==
    /\ pc = "consider" /\ cur = "ndk"
    /\ considered' = Append(considered, "ndk")
    /\ IF flags.ndk_version_error
       THEN /\ required_ndk_version' = required_ndk_version_of(build_error_output)
            /\ applied' = Append(applied, "ndk")
            /\ mutated' = mutated \cup {"android/"}
            /\ \E raised \in BOOLEAN :
                  IF raised THEN Raise /\ UNCHANGED tried_fixes ELSE Recorded("ndk")
       ELSE /\ Skip("ndk")
            /\ UNCHANGED << required_ndk_version, applied, mutated, tried_fixes >>
    /\ UNCHANGED << proj, calls >>
    /\ UNCHANGED considerFrame
    /\ UNCHANGED << apkRc, unitVars >>

ConsiderKotlin ==
    /\ pc = "consider" /\ cur = "kotlin"
    /\ considered' = Append(considered, "kotlin")
    /\ IF kotlin_condition(proj, flags)
       THEN /\ applied' = Append(applied, "kotlin")
            /\ calls' = calls \cup {"fix_kotlin_dsl_issues"}
            /\ mutated' = mutated \cup {"android/"}
            /\ \E s \in KotlinSettingsEnds, a \in KotlinAppEnds :
                  LET r == fix_kotlin_dsl_issues(proj, s, a)
                  IN  /\ proj' = r.proj
                      /\ IF r.raised THEN Raise /\ UNCHANGED tried_fixes
                         ELSE Recorded("kotlin")
       ELSE /\ Skip("kotlin")
            /\ UNCHANGED << applied, calls, mutated, proj, tried_fixes >>
    /\ UNCHANGED required_ndk_version
    /\ UNCHANGED considerFrame
    /\ UNCHANGED << apkRc, unitVars >>

ConsiderJava ==
    /\ pc = "consider" /\ cur = "java"
    /\ considered' = Append(considered, "java")
    /\ IF java_condition(flags, java_info_err)
       THEN /\ applied' = Append(applied, "java")
            /\ calls' = calls \cup {"run_java_gradle_fix"}
            /\ mutated' = mutated \cup {"android/"}
            /\ Recorded("java")
       ELSE /\ Skip("java")
            /\ UNCHANGED << applied, calls, mutated, tried_fixes >>
    /\ UNCHANGED << proj, required_ndk_version >>
    /\ UNCHANGED considerFrame
    /\ UNCHANGED << apkRc, unitVars >>

ConsiderPlugin ==
    /\ pc = "consider" /\ cur = "plugin"
    /\ considered' = Append(considered, "plugin")
    /\ applied' = Append(applied, "plugin")
    /\ calls' = calls \cup {"fix_vibration_plugin"}
    /\ mutated' = IF proj.pubspec THEN mutated \cup {"pubspec.yaml"} ELSE mutated
    /\ \E ioErr \in BOOLEAN, pub1Rc \in {0, 1}, pub2Rc \in {0, 1} :
          IF fix_vibration_plugin(proj, ioErr, pub1Rc, pub2Rc)
          THEN Recorded("plugin")
          ELSE Skip("plugin") /\ UNCHANGED tried_fixes
    /\ UNCHANGED << proj, required_ndk_version >>
    /\ UNCHANGED considerFrame
    /\ UNCHANGED << apkRc, unitVars >>

\* clean_gradle_cache(thorough=True) ends with an os.makedirs outside any try.
ConsiderCache ==
    /\ pc = "consider" /\ cur = "cache"
    /\ considered' = Append(considered, "cache")
    /\ IF flags.gradle_cache_error
       THEN /\ applied' = Append(applied, "cache")
            /\ calls' = calls \cup {"clean_gradle_cache", "fix_gradle_plugin_loader_issue"}
            /\ mutated' = mutated \cup {"android/"}
            /\ \E raised \in BOOLEAN :
                  IF raised THEN Raise /\ UNCHANGED tried_fixes ELSE Recorded("cache")
       ELSE /\ Skip("cache")
            /\ UNCHANGED << applied, calls, mutated, tried_fixes >>
    /\ UNCHANGED << proj, required_ndk_version >>
    /\ UNCHANGED considerFrame
    /\ UNCHANGED << apkRc, unitVars >>

\* The last resort: move android/ away, `flutter create`, `flutter pub get`, build.
\* moveOk: shutil.move worked (a failure is caught here); created: android/
\* exists again after `flutter create`.
ConsiderRegen ==
    /\ pc = "consider" /\ cur = "regen"
    /\ considered' = Append(considered, "regen")
    /\ IF RegenGuard(tried_fixes)
       THEN /\ applied' = Append(applied, "regen")
            /\ \E moveOk \in BOOLEAN, created \in BOOLEAN :
                  /\ mutated' = IF moveOk THEN mutated \cup {"android/", "android_backup"}
                                ELSE mutated
                  /\ calls' = IF moveOk THEN calls \cup {"flutter create"} ELSE calls
                  /\ IF moveOk /\ created
                     THEN pc' = "retry" /\ cur' = cur
                     ELSE Skip("regen")
       ELSE /\ Skip("regen")
            /\ UNCHANGED << applied, calls, mutated >>
    /\ UNCHANGED << proj, required_ndk_version, tried_fixes >>
    /\ UNCHANGED considerFrame
    /\ UNCHANGED << apkRc, unitVars >>

\* For comparison: a failed retry goes back to the step it followed.
AfterRetry_again(ok, step) ==
    IF ok THEN Return(0) /\ cur' = cur
    ELSE pc' = "consider" /\ cur' = cur /\ exitCode' = exitCode

\* What main() does with the result of a retry: return 0, or the next step.
AfterRetry(ok, step) ==
    IF ok THEN Return(0) /\ cur' = cur
    ELSE Skip(step) /\ exitCode' = exitCode

\* For comparison: a retry that passes --no-clean on.
retry_no_clean_asGiven == args.no_clean

\* The no_clean argument of every retry: the literal False.
retry_no_clean == FALSE

\* Every retry is build_and_run_android_emulator(name, args.verbose, False).
RetryBuild ==
    /\ pc = "retry"
    /\ \E r \in BuildResults(args.verbose, retry_no_clean, printed) :
          /\ lastBuild' = r
          /\ buildOk' = Truthy(r.ret)
          /\ calls' = calls \cup {"build_and_run_android_emulator"}
          /\ AfterRetry(Truthy(r.ret), cur)
    /\ builds' = builds + 1
    /\ retried' = Append(retried, cur)
    /\ mutated' = mutated \cup {"android/"}
    /\ UNCHANGED << args, fs, proj, emulators, selected, printed, build_error_output, flags,
                    required_ndk_version, java_info_err, tried_fixes, applied, considered,
                    failedCheck, log, logAttempts >>
    /\ UNCHANGED << apkRc, unitVars >>

(***************************************************************************)
(* main(): the two places that write the error log and return 1.  writeOk: *)
(* the file could be written (a failure is caught and reported).           *)
(***************************************************************************)
WriteLog(kind, tried, text, writeOk) ==
    /\ logAttempts' = logAttempts + 1
    /\ log' = IF writeOk THEN [kind |-> kind, tried |-> tried, text |-> text] ELSE log
    /\ mutated' = IF writeOk THEN mutated \cup {"android_emulator_error_log"} ELSE mutated

logFrame ==
    << cur, args, fs, proj, emulators, selected, calls, builds, buildOk, lastBuild, printed,
       build_error_output, flags, required_ndk_version, java_info_err, tried_fixes, applied,
       considered, retried, failedCheck >>

\* All steps were gone through and no build succeeded.
Exhausted ==
    /\ pc = "consider" /\ cur = "exhausted"
    /\ \E writeOk \in BOOLEAN : WriteLog("exhausted", tried_fixes, build_error_output, writeOk)
    /\ Return(1)
    /\ UNCHANGED logFrame
    /\ UNCHANGED << apkRc, unitVars >>

\* `except Exception as e` of main(): the log holds str(e), not the tried fixes.
Except ==
    /\ pc = "except"
    /\ \E writeOk \in BOOLEAN : WriteLog("exception", <<>>, <<"str(e)">>, writeOk)
    /\ Return(1)
    /\ UNCHANGED logFrame
    /\ UNCHANGED << apkRc, unitVars >>

Next ==
    \/ CheckFlutter
    \/ CheckSdk
    \/ CheckProject
    \/ PrepareOutput
    \/ ApkMode
    \/ FixGradleMode
    \/ Enumerate
    \/ ListExit
    \/ SelectEmulator
    \/ Prebuild
    \/ InitialBuild
    \/ ClassifyFailure
    \/ ConsiderNdk
    \/ ConsiderKotlin
    \/ ConsiderJava
    \/ ConsiderPlugin
    \/ ConsiderCache
    \/ ConsiderRegen
    \/ RetryBuild
    \/ Exhausted
    \/ Except

Spec == Init /\ [][Next]_vars

(***************************************************************************)
(* The classifier on its own: main() at line 1017 with any captured text   *)
(* of at most MaxOutLen fragments, followed by the NDK step.               *)
(***************************************************************************)
InitClassify ==
    /\ pc = "classify"
    /\ cur = "none"
    /\ args = [ list |-> FALSE, build_apk |-> FALSE, fix_gradle |-> FALSE,
                no_clean |-> FALSE, verbose |-> FALSE, emulator |-> 1 ]
    /\ fs = [outputDir |-> TRUE, sdkLink |-> TRUE]
    /\ proj = NoProj
    /\ mutated = {"android/"}
    /\ emulators = 1
    /\ selected = 1
    /\ calls = {}
    /\ builds = 1
    /\ buildOk = FALSE
    /\ lastBuild = NoBuild
    /\ build_error_output \in Outputs
    /\ printed = build_error_output
    /\ flags = NoFlags
    /\ required_ndk_version = DefaultNdkVersion
    /\ java_info_err = FALSE
    /\ tried_fixes = <<>>
    /\ applied = <<>>
    /\ considered = <<>>
    /\ retried = <<>>
    /\ failedCheck = "none"
    /\ log = NoLog
    /\ logAttempts = 0
    /\ exitCode = -1
    /\ apkRc = -1
    /\ NoUnit

NextClassify == ClassifyFailure \/ ConsiderNdk

SpecClassify == InitClassify /\ [][NextClassify]_vars

(***************************************************************************)
(* Functions run on their own.  main() is at rest; `unit` names the        *)
(* function, `input` holds its arguments and what the environment does,    *)
(* `output` what it returned (<<>>: it has not returned yet).              *)
(***************************************************************************)
MainIdle ==
    /\ pc = "idle"
    /\ cur = "none"
    /\ args = [ list |-> FALSE, build_apk |-> FALSE, fix_gradle |-> FALSE,
                no_clean |-> FALSE, verbose |-> FALSE, emulator |-> 0 ]
    /\ fs = [outputDir |-> FALSE, sdkLink |-> FALSE]
    /\ proj = NoProj
    /\ mutated = {}
    /\ emulators = 0
    /\ selected = 0
    /\ calls = {}
    /\ builds = 0
    /\ buildOk = FALSE
    /\ lastBuild = NoBuild
    /\ printed = <<>>
    /\ build_error_output = <<>>
    /\ flags = NoFlags
    /\ required_ndk_version = DefaultNdkVersion
    /\ java_info_err = FALSE
    /\ tried_fixes = <<>>
    /\ applied = <<>>
    /\ considered = <<>>
    /\ retried = <<>>
    /\ failedCheck = "none"
    /\ log = NoLog
    /\ logAttempts = 0
    /\ exitCode = -1
    /\ apkRc = -1

(***************************************************************************)
(* utils.run_command on its own.  rc: the exit status of the command;      *)
(* text: what it prints; exc: "timeout" (subprocess.TimeoutExpired),       *)
(* "error" (another exception of subprocess) or "none".                    *)
(***************************************************************************)
ExitStatuses == {0, 1, 2, 127}

RunCommandInputs ==
    [ rc : ExitStatuses, text : PrintedSamples \cup {<<>>}, show_output : BOOLEAN,
      show_progress : BOOLEAN, exc : {"none", "timeout", "error"} ]

InitRunCommand ==
    /\ MainIdle
    /\ unit = "run_command"
    /\ input \in RunCommandInputs
    /\ output = <<>>

RunCommand ==
    /\ unit = "run_command"
    /\ output = <<>>
    /\ output' = run_command(input.rc, input.text, input.show_output, input.show_progress,
                             input.exc # "none")
    /\ UNCHANGED << unit, input >>
    /\ UNCHANGED mainVars

NextRunCommand == RunCommand

SpecRunCommand == InitRunCommand /\ [][NextRunCommand]_vars

(***************************************************************************)
(* emulator.select_emulator on its own.  A text is a sequence of           *)
(* characters.  names: the names of the listed devices, in order (names of *)
(* virtual devices are made of letters, digits, `.`, `_` and `-`);         *)
(* emulator: the --emulator argument (<<>>: not given).  The result is the *)
(* 1-based position of the returned device, 0 for None.                    *)
(***************************************************************************)
\* Most listed devices, longest argument or answer, most rejected answers.
MaxListed == 3
MaxTextLen == 2
MaxPrompts == 2

DigitChars == {"0", "1", "2", "3"}
Chars == DigitChars \cup {"-", "a"}

DigitValue(c) ==
    CASE c = "0" -> 0
      [] c = "1" -> 1
      [] c = "2" -> 2
      [] OTHER -> 3

Texts == UNION { [1..n -> Chars] : n \in 0..MaxTextLen }

\* Python: int(text) for a text over Chars; ok: no ValueError.
RECURSIVE DigitsValue(_)
DigitsValue(t) ==
    IF t = <<>> THEN 0
    ELSE 10 * DigitsValue(SubSeq(t, 1, Len(t) - 1)) + DigitValue(t[Len(t)])

AllDigits(t) == t # <<>> /\ \A i \in 1..Len(t) : t[i] \in DigitChars

ParseInt(t) ==
    IF AllDigits(t) THEN [ok |-> TRUE, value |-> DigitsValue(t)]
    ELSE IF t # <<>> /\ t[1] = "-" /\ AllDigits(Tail(t))
         THEN [ok |-> TRUE, value |-> 0 - DigitsValue(Tail(t))]
         ELSE [ok |-> FALSE, value |-> 0]

DeviceNames == { <<"a">>, <<"a", "1">>, <<"1">>, <<"2">> }

\* Lists of distinct names.
DeviceLists ==
    { l \in UNION { [1..n -> DeviceNames] : n \in 0..MaxListed } :
        \A i \in 1..Len(l) : \A j \in 1..Len(l) : i # j => l[i] # l[j] }

\* `if 0 <= idx < len(emulators)` with idx = int(text) - 1.
IndexOf(text, names) ==
    LET n == ParseInt(text)
    IN  IF n.ok /\ 0 <= n.value - 1 /\ n.value - 1 < Len(names) THEN n.value ELSE 0

\* For comparison: the argument is looked up as an index only.
select_by_argument_indexOnly(emulator, names) == IndexOf(emulator, names)

\* Lines 245-263: the device named by the argument, else the one at that index.
select_by_argument(emulator, names) ==
    LET named == { i \in 1..Len(names) : names[i] = emulator }
    IN  IF named # {} THEN CHOOSE i \in named : \A j \in named : i <= j
        ELSE IndexOf(emulator, names)

InitSelect ==
    /\ MainIdle
    /\ unit = "select_emulator"
    /\ input \in [emulator : Texts, names : DeviceLists]
    /\ output = <<>>

Selected(i, prompts) ==
    /\ unit' = "select_emulator.returned"
    /\ output' = [ret |-> i, prompts |-> prompts]

\* Lines 239-264: no device, or the --emulator argument, or go to the prompt.
SelectStart ==
    /\ unit = "select_emulator"
    /\ IF input.names = <<>> THEN Selected(0, 0)
       ELSE IF input.emulator # <<>>
            THEN Selected(select_by_argument(input.emulator, input.names), 0)
            ELSE unit' = "select_emulator.prompt" /\ output' = [prompts |-> 0]
    /\ UNCHANGED input
    /\ UNCHANGED mainVars

\* Lines 266-276: an answer is typed; a number in range is returned, any other
\* answer is rejected and the prompt is shown again.
PromptAnswer ==
    /\ unit = "select_emulator.prompt"
    /\ \E choice \in Texts :
          IF IndexOf(choice, input.names) # 0
          THEN Selected(IndexOf(choice, input.names), output.prompts)
          ELSE /\ output.prompts < MaxPrompts
               /\ unit' = unit
               /\ output' = [prompts |-> output.prompts + 1]
    /\ UNCHANGED input
    /\ UNCHANGED mainVars

\* Lines 277-279: Ctrl+C at the prompt.
PromptInterrupt ==
    /\ unit = "select_emulator.prompt"
    /\ Selected(0, output.prompts)
    /\ UNCHANGED input
    /\ UNCHANGED mainVars

\* input() at the end of standard input raises EOFError, which nothing catches.
PromptEof ==
    /\ unit = "select_emulator.prompt"
    /\ unit' = "select_emulator.raised"
    /\ output' = [raised |-> "EOFError", prompts |-> output.prompts]
    /\ UNCHANGED input
    /\ UNCHANGED mainVars

NextSelect == SelectStart \/ PromptAnswer \/ PromptInterrupt \/ PromptEof

SpecSelect == InitSelect /\ [][NextSelect]_vars

(***************************************************************************)
(* env_check.setup_android_paths and check_android_sdk on PATH.  PATH is a *)
(* sequence of tokens: directory names and the separator os.pathsep.       *)
(* dirs: the tool directories that exist; emulatorFile: what               *)
(* <sdk>/emulator/emulator is ("missing", "plain": not executable,         *)
(* "executable").  No directory outside the SDK holds an emulator command. *)
(***************************************************************************)
\* Longest initial PATH, in tokens, and most calls followed.
MaxPathLen == 3
MaxProbeCalls == 3

Sep == ":"
PlatformToolsDir == "/sdk/platform-tools"
ToolsDir == "/sdk/tools"
ToolsBinDir == "/sdk/tools/bin"
EmulatorDir == "/sdk/emulator"
OtherDir == "/usr/bin"

\* path_dirs, in the order of the code.
path_dirs == << PlatformToolsDir, ToolsDir, ToolsBinDir, EmulatorDir >>

ToolDirs == { path_dirs[i] : i \in 1..Len(path_dirs) }

PathTokens == ToolDirs \cup {OtherDir, Sep}

\* Python: `directory in current_path`, a substring test on the whole PATH.
IsSubstring(directory, token) ==
    \/ token = directory
    \/ directory = ToolsDir /\ token = ToolsBinDir

InPath(directory, path) == \E i \in 1..Len(path) : IsSubstring(directory, path[i])

\* Python: path.replace("::", ":"), one scan from the left.
RECURSIVE ReplaceDoubleSep(_)
ReplaceDoubleSep(path) ==
    IF Len(path) < 2 THEN path
    ELSE IF path[1] = Sep /\ path[2] = Sep
         THEN <<Sep>> \o ReplaceDoubleSep(SubSeq(path, 3, Len(path)))
         ELSE <<path[1]>> \o ReplaceDoubleSep(Tail(path))

\* Lines 72-76: the loop over path_dirs from index i on; current_path is PATH
\* as it was before the loop.
RECURSIVE AddPathDirs(_, _, _, _)
AddPathDirs(path, current_path, dirs, i) ==
    IF i > Len(path_dirs) THEN path
    ELSE IF path_dirs[i] \in dirs /\ ~InPath(path_dirs[i], current_path)
         THEN AddPathDirs(<<path_dirs[i], Sep>> \o path, current_path, dirs, i + 1)
         ELSE AddPathDirs(path, current_path, dirs, i + 1)

\* setup_android_paths, lines 59-79: what it makes of PATH.
setup_android_paths_PATH(path, dirs) == ReplaceDoubleSep(AddPathDirs(path, path, dirs, 1))

\* shutil.which("emulator"): an entry of PATH holds an executable of that name.
WhichEmulator(path, emulatorFile) ==
    emulatorFile = "executable" /\ \E i \in 1..Len(path) : path[i] = EmulatorDir

\* check_android_sdk, lines 153-191: what it makes of PATH.
check_android_sdk_PATH(path, dirs, emulatorFile) ==
    IF EmulatorDir \notin dirs THEN path
    ELSE IF WhichEmulator(path, emulatorFile) THEN setup_android_paths_PATH(path, dirs)
    ELSE IF emulatorFile # "missing"
         THEN setup_android_paths_PATH(path \o <<Sep, EmulatorDir>>, dirs)
         ELSE path

Occurrences(path, d) == Cardinality({ i \in 1..Len(path) : path[i] = d })

\* A PATH as a shell leaves it: no two directory names without a separator
\* between them, and no tool directory twice.
InitialPaths ==
    { path \in UNION { [1..n -> PathTokens] : n \in 0..MaxPathLen } :
        /\ \A i \in 1..(Len(path) - 1) : path[i] = Sep \/ path[i + 1] = Sep
        /\ \A d \in ToolDirs : Occurrences(path, d) <= 1 }

ProbeEnvs ==
    { e \in [dirs : SUBSET ToolDirs, emulatorFile : {"missing", "plain", "executable"}] :
        e.emulatorFile # "missing" => EmulatorDir \in e.dirs }

InitProbe ==
    /\ MainIdle
    /\ unit = "probe"
    /\ input \in ProbeEnvs
    /\ \E path \in InitialPaths : output = [PATH |-> path, before |-> path, calls |-> 0]

CallSetupAndroidPaths ==
    /\ unit = "probe"
    /\ output.calls < MaxProbeCalls
    /\ output' = [ PATH |-> setup_android_paths_PATH(output.PATH, input.dirs),
                   before |-> output.PATH, calls |-> output.calls + 1 ]
    /\ UNCHANGED << unit, input >>
    /\ UNCHANGED mainVars

CallCheckAndroidSdk ==
    /\ unit = "probe"
    /\ output.calls < MaxProbeCalls
    /\ output' = [ PATH |-> check_android_sdk_PATH(output.PATH, input.dirs, input.emulatorFile),
                   before |-> output.PATH, calls |-> output.calls + 1 ]
    /\ UNCHANGED << unit, input >>
    /\ UNCHANGED mainVars

NextProbe == CallSetupAndroidPaths \/ CallCheckAndroidSdk

SpecProbe == InitProbe /\ [][NextProbe]_vars

(***************************************************************************)
(* build.check_and_fix_ndk_versions and build.direct_update_ndk_version on *)
(* android/local.properties and android/app/build.gradle.  A file is       *)
(* [exists, lines, eol]: its lines and whether the last one ends with a    *)
(* newline.  A line is [kind, v, n]:                                       *)
(*   "sdk.dir"     sdk.dir=/x                                              *)
(*   "ndk.dir"     ndk.dir=/x/ndk/<v>  (v = <<>>: a path without /ndk/)    *)
(*   "disabled"    n times "# ", then ndk.dir=disabled_by_script (...)     *)
(*   "android {"   android {                                               *)
(*   "ndkVersion"  ndkVersion "<v>"                                        *)
(*   "text"        <v>"        (what a replacement made of a line)         *)
(*   "}"           }                                                       *)
(* A version is a sequence of characters.                                  *)
(***************************************************************************)
\* Longest local.properties, in lines, and most applications followed.
MaxPropLines == 2
MaxApplies == 2

DecimalDigits == {"0", "1", "2", "3", "4", "5", "6", "7", "8", "9"}
OctalDigits == {"0", "1", "2", "3", "4", "5", "6", "7"}

DecimalValue(c) ==
    CASE c = "0" -> 0 [] c = "1" -> 1 [] c = "2" -> 2 [] c = "3" -> 3 [] c = "4" -> 4
      [] c = "5" -> 5 [] c = "6" -> 6 [] c = "7" -> 7 [] c = "8" -> 8 [] OTHER -> 9

\* Python: chr(code), for the codes 80..87.
Chr(code) ==
    CASE code = 80 -> "P" [] code = 81 -> "Q" [] code = 82 -> "R" [] code = 83 -> "S"
      [] code = 84 -> "T" [] code = 85 -> "U" [] code = 86 -> "V" [] code = 87 -> "W"
      [] OTHER -> "?"

NdkVersions == { <<"2", "3", ".", "1">>, <<"2", "1", ".", "4">>, <<"2", "9", ".", "0">> }

\* Python None for a version that was not found.
NoVersion == <<>>

Line(kind, v, n) == [kind |-> kind, v |-> v, n |-> n]

NoFile == [exists |-> FALSE, lines |-> <<>>, eol |-> FALSE]

PropLines == { Line("sdk.dir", <<>>, 0) } \cup { Line("ndk.dir", v, 0) : v \in NdkVersions \cup {<<>>} }

LocalProperties ==
    { NoFile } \cup
    { [exists |-> TRUE, lines |-> l, eol |-> e] :
        l \in UNION { [1..n -> PropLines] : n \in 1..MaxPropLines }, e \in BOOLEAN }

BuildGradles ==
    { NoFile,
      [exists |-> TRUE, eol |-> TRUE,
       lines |-> << Line("android {", <<>>, 0), Line("}", <<>>, 0) >>] } \cup
    { [exists |-> TRUE, eol |-> TRUE,
       lines |-> << Line("android {", <<>>, 0), Line("ndkVersion", v, 0), Line("}", <<>>, 0) >>] :
        v \in NdkVersions }

HasKind(file, kinds) == \E i \in 1..Len(file.lines) : file.lines[i].kind \in kinds

\* re.search(r'ndk\.dir=(.+?)[\r\n]'): the lines that hold "ndk.dir=" and are
\* followed by a newline.
NdkDirMatches(file) ==
    { i \in 1..Len(file.lines) :
        /\ file.lines[i].kind \in {"ndk.dir", "disabled"}
        /\ (i < Len(file.lines) \/ file.eol) }

\* Lines 76-81 and 156-164: the version in the path of the first match, found
\* by re.search(r'/ndk/([0-9.]+)').
ndk_dir_version_of(file) ==
    IF ~file.exists \/ NdkDirMatches(file) = {} THEN NoVersion
    ELSE LET i == CHOOSE i \in NdkDirMatches(file) : \A j \in NdkDirMatches(file) : i <= j
         IN  IF file.lines[i].kind = "ndk.dir" THEN file.lines[i].v ELSE NoVersion

\* Lines 99-108: re.search(r'ndkVersion\s+[\'"]([0-9.]+)[\'"]') in the build script.
gradle_ndk_version_of(file) ==
    LET m == { i \in 1..Len(file.lines) : file.lines[i].kind = "ndkVersion" }
    IN  IF ~file.exists \/ m = {} THEN NoVersion
        ELSE file.lines[CHOOSE i \in m : \A j \in m : i <= j].v

\* Lines 174-178 and 230-234: re.sub(r'ndk\.dir=.*', '# ndk.dir=disabled_by_script
\* (...)'): what follows "ndk.dir=" on a line is replaced, what precedes it stays.
DisableNdkDir(lines) ==
    [ i \in 1..Len(lines) |->
        IF lines[i].kind = "ndk.dir" THEN Line("disabled", <<>>, 1)
        ELSE IF lines[i].kind = "disabled" THEN Line("disabled", <<>>, lines[i].n + 1)
        ELSE lines[i] ]

\* Lines 219-223: the replacement template r'\1' + ndk_version + r'\2' as re.sub
\* reads it.  "\1" followed by a digit is a two-digit group number, or, when
\* three octal digits follow the backslash, the character with that octal code:
\* the first group is then not part of the replacement.
ExpandTemplate(v) ==
    IF v # <<>> /\ v[1] \in DecimalDigits
    THEN IF v[1] \in OctalDigits /\ Len(v) >= 2 /\ v[2] \in OctalDigits
         THEN [ error |-> FALSE,
                line |-> Line("text",
                              <<Chr(64 + 8 * DecimalValue(v[1]) + DecimalValue(v[2]))>>
                                  \o SubSeq(v, 3, Len(v)), 0) ]
         ELSE [error |-> TRUE, line |-> Line("text", <<>>, 0)]
    ELSE [error |-> FALSE, line |-> Line("ndkVersion", v, 0)]

\* Lines 205-225: every `ndkVersion "..."` is replaced; re.error is caught and
\* leaves the file as it was.
ReplaceNdkVersion(lines, v) ==
    IF ExpandTemplate(v).error THEN lines
    ELSE [ i \in 1..Len(lines) |->
             IF lines[i].kind = "ndkVersion" THEN ExpandTemplate(v).line ELSE lines[i] ]

\* Lines 258-265: a line `ndkVersion "<v>"` is put after every `android {`.
RECURSIVE AddNdkVersion(_, _)
AddNdkVersion(lines, v) ==
    IF lines = <<>> THEN <<>>
    ELSE IF Head(lines).kind = "android {"
         THEN << Head(lines), Line("ndkVersion", v, 0) >> \o AddNdkVersion(Tail(lines), v)
         ELSE << Head(lines) >> \o AddNdkVersion(Tail(lines), v)

\* build.direct_update_ndk_version: the files it leaves and the list of the
\* files it modified.
direct_update_ndk_version(files, ndk_version) ==
    LET lp == files.lp
        bg == files.bg
        hasNdkDir == lp.exists /\ HasKind(lp, {"ndk.dir", "disabled"})
        found == ndk_dir_version_of(lp)
        version == IF hasNdkDir /\ found # NoVersion /\ found # ndk_version
                   THEN found ELSE ndk_version
        lp2 == IF hasNdkDir THEN [lp EXCEPT !.lines = DisableNdkDir(lp.lines)] ELSE lp
        replaced == IF bg.exists /\ HasKind(bg, {"ndkVersion"})
                    THEN [bg EXCEPT !.lines = ReplaceNdkVersion(bg.lines, version)]
                    ELSE bg
        bg2 == IF replaced = bg /\ bg.exists /\ HasKind(bg, {"android {"})
                     /\ ~HasKind(bg, {"ndkVersion"})
               THEN [bg EXCEPT !.lines = AddNdkVersion(bg.lines, version)]
               ELSE replaced
    IN  [ files |-> [lp |-> lp2, bg |-> bg2],
          modified_files |-> (IF lp2 # lp THEN {"local.properties"} ELSE {}) \cup
                             (IF bg2 # bg THEN {"app/build.gradle"} ELSE {}) ]

\* build.check_and_fix_ndk_versions (android/ exists).
check_and_fix_ndk_versions(files) ==
    LET ndk_dir_version == ndk_dir_version_of(files.lp)
        gradle_ndk_version == gradle_ndk_version_of(files.bg)
        r == direct_update_ndk_version(files, ndk_dir_version)
    IN  IF \/ (ndk_dir_version # NoVersion /\ gradle_ndk_version # NoVersion
                 /\ ndk_dir_version # gradle_ndk_version)
           \/ (ndk_dir_version # NoVersion /\ gradle_ndk_version = NoVersion)
        THEN [files |-> r.files, modified_files |-> r.modified_files,
              ret |-> r.modified_files # {}]
        ELSE [files |-> files, modified_files |-> {}, ret |-> FALSE]

InitNdk ==
    /\ MainIdle
    /\ unit = "ndk"
    /\ input \in [ndk_version : NdkVersions]
    /\ \E lp \in LocalProperties, bg \in BuildGradles :
          output = [ files |-> [lp |-> lp, bg |-> bg],
                     before |-> [lp |-> lp, bg |-> bg],
                     baks |-> [lp |-> NoFile, bg |-> NoFile],
                     modified_files |-> {}, ops |-> <<>> ]

\* One call of direct_update_ndk_version(input.ndk_version).
DirectUpdate ==
    /\ unit = "ndk"
    /\ Len(output.ops) < MaxApplies
    /\ LET r == direct_update_ndk_version(output.files, input.ndk_version)
       IN  output' = [ files |-> r.files, before |-> output.files, baks |-> output.baks,
                       modified_files |-> r.modified_files,
                       ops |-> Append(output.ops, "direct_update_ndk_version") ]
    /\ UNCHANGED << unit, input >>
    /\ UNCHANGED mainVars

\* One call of check_and_fix_ndk_versions().
CheckAndFix ==
    /\ unit = "ndk"
    /\ Len(output.ops) < MaxApplies
    /\ LET r == check_and_fix_ndk_versions(output.files)
       IN  output' = [ files |-> r.files, before |-> output.files, baks |-> output.baks,
                       modified_files |-> r.modified_files,
                       ops |-> Append(output.ops, "check_and_fix_ndk_versions") ]
    /\ UNCHANGED << unit, input >>
    /\ UNCHANGED mainVars

NextNdk == DirectUpdate \/ CheckAndFix

SpecNdk == InitNdk /\ [][NextNdk]_vars

(***************************************************************************)
(* emulator.boot_emulator on its own.  adbLists: `adb devices` answers     *)
(* with its list (the header "List of devices attached" is part of it);    *)
(* namedAdb, otherAdb: how the named device and another emulator appear in *)
(* that list ("none", "device", "offline"); namedRunning: the named device *)
(* runs; psNamed: `ps aux | grep <name>` prints a line; startRc: the exit  *)
(* status of the start command.                                            *)
(***************************************************************************)
\* The wait budget of the readiness poll (wait_time, in seconds) and the
\* longest time one iteration of the poll takes.
MaxWait == 3
MaxPollStep == 2

AdbStates == {"none", "device", "offline"}

BootInputs ==
    { i \in [ adbLists : BOOLEAN, namedAdb : AdbStates, otherAdb : AdbStates,
              namedRunning : BOOLEAN, psNamed : BOOLEAN, startRc : {0, 1} ] :
        /\ (i.namedRunning => i.psNamed)
        /\ (~i.namedRunning => i.namedAdb = "none") }

\* Lines 184-191: "emulator-" and "device" are in the text of adb, or ps
\* printed something.
is_running(i) ==
    \/ (i.adbLists /\ (i.namedAdb # "none" \/ i.otherAdb # "none"))
    \/ i.psNamed

\* For comparison: a poll that gives up with False.
TimeoutResult_false == FALSE

\* Line 235: what boot_emulator returns when the wait budget is used up.
TimeoutResult == TRUE

InitBoot ==
    /\ MainIdle
    /\ unit = "boot_emulator"
    /\ input \in BootInputs
    /\ output = <<>>

BootReturn(ret, started, elapsed, timedOut) ==
    /\ unit' = "boot_emulator.returned"
    /\ output' = [ret |-> ret, started |-> started, elapsed |-> elapsed, timedOut |-> timedOut]

\* Lines 181-195: a running emulator is used as it is.
BootCheck ==
    /\ unit = "boot_emulator"
    /\ IF is_running(input)
       THEN BootReturn(TRUE, FALSE, 0, FALSE)
       ELSE unit' = "boot_emulator.start" /\ output' = output
    /\ UNCHANGED input
    /\ UNCHANGED mainVars

\* Lines 197-210: the start command.
BootStart ==
    /\ unit = "boot_emulator.start"
    /\ IF run_command(input.startRc, <<>>, TRUE, FALSE, FALSE).ok
       THEN unit' = "boot_emulator.poll" /\ output' = [elapsed |-> 0]
       ELSE BootReturn(FALSE, TRUE, 0, FALSE)
    /\ UNCHANGED input
    /\ UNCHANGED mainVars

\* Lines 211-232: one iteration of the poll.  visible: adb lists the device;
\* completed: sys.boot_completed is "1"; dt: the time the iteration takes (it
\* sleeps one second).
BootPoll ==
    /\ unit = "boot_emulator.poll"
    /\ output.elapsed < MaxWait
    /\ \E visible \in BOOLEAN, completed \in BOOLEAN, dt \in 1..MaxPollStep :
          IF visible /\ completed
          THEN BootReturn(TRUE, TRUE, output.elapsed, FALSE)
          ELSE unit' = unit /\ output' = [elapsed |-> output.elapsed + dt]
    /\ UNCHANGED input
    /\ UNCHANGED mainVars

\* Lines 234-235: the wait budget is used up.
BootTimeout ==
    /\ unit = "boot_emulator.poll"
    /\ output.elapsed >= MaxWait
    /\ BootReturn(TimeoutResult, TRUE, output.elapsed, TRUE)
    /\ UNCHANGED input
    /\ UNCHANGED mainVars

NextBoot == BootCheck \/ BootStart \/ BootPoll \/ BootTimeout

SpecBoot == InitBoot /\ [][NextBoot]_vars

(***************************************************************************)
(* build.build_and_run_android_emulator on its own: one invocation, with   *)
(* any flags and any outcome of the commands it runs.                      *)
(***************************************************************************)
InitBuild ==
    /\ MainIdle
    /\ unit = "build_and_run_android_emulator"
    /\ input \in [verbose : BOOLEAN, no_clean : BOOLEAN, env : BuildEnvs, text : PrintedSamples]
    /\ output = <<>>

BuildCall ==
    /\ unit = "build_and_run_android_emulator"
    /\ output = <<>>
    /\ output' = build_and_run_android_emulator(input.verbose, input.no_clean, input.env,
                                                input.text)
    /\ UNCHANGED << unit, input >>
    /\ UNCHANGED mainVars

NextBuild == BuildCall

SpecBuild == InitBuild /\ [][NextBuild]_vars

(***************************************************************************)
(* main.build_apk on its own, one command at a time.  input: the verbose   *)
(* flag, the text the build command prints and whether .apk files are      *)
(* found afterwards.  output.builds counts the `flutter build apk`         *)
(* commands issued, output.rcs keeps their exit statuses.                  *)
(***************************************************************************)
ApkInputs == [ verbose : BOOLEAN, text : PrintedSamples, apkFiles : BOOLEAN ]

InitApk ==
    /\ MainIdle
    /\ unit = "build_apk"
    /\ input \in ApkInputs
    /\ output = [builds |-> 0, rcs |-> <<>>]

ApkReturn(ret, rcs) ==
    /\ unit' = "build_apk.returned"
    /\ output' = [builds |-> Len(rcs), rcs |-> rcs, ret |-> ret]

\* Line 542: `flutter pub get`, whose result is not looked at.
ApkPubGet ==
    /\ unit = "build_apk"
    /\ output.builds < MaxApkBuilds
    /\ \E rc \in ExitStatuses :
          run_command(rc, <<>>, input.verbose, FALSE, FALSE).ok \in BOOLEAN
    /\ unit' = "build_apk.build"
    /\ UNCHANGED << input, output >>
    /\ UNCHANGED mainVars

\* Lines 544-597: the build command and what follows it.  rc: its exit
\* status; fixed: what fix_ndk_version returns when it is called.
ApkBuildCommand ==
    /\ unit = "build_apk.build"
    /\ \E rc \in ExitStatuses, fixed \in BOOLEAN :
          LET result == run_command(rc, input.text, input.verbose, FALSE, FALSE)
              error_output == Str(result.out)
              rcs == Append(output.rcs, rc)
          IN  IF ~result.ok
              THEN IF Contains(error_output, NdkRequiresMsg) /\ fixed
                   THEN /\ unit' = "build_apk"
                        /\ output' = [builds |-> Len(rcs), rcs |-> rcs]
                   ELSE ApkReturn(FALSE, rcs)
              ELSE ApkReturn(input.apkFiles, rcs)
    /\ UNCHANGED input
    /\ UNCHANGED mainVars

NextApk == ApkPubGet \/ ApkBuildCommand

SpecApk == InitApk /\ [][NextApk]_vars

(***************************************************************************)
(* The app build script (android/app/build.gradle.kts or build.gradle) as  *)
(* the NDK repairs read it: the `android {` line, and `ndkVersion`         *)
(* declarations.  A declaration has a value v, written in quotes or not    *)
(* (`flutter.ndkVersion`), after a `=` (Kotlin) or not (Groovy).           *)
(***************************************************************************)
NonLiteral == "flutter.ndkVersion"

Decl(v, quoted, eq) == [kind |-> "ndkVersion", v |-> v, quoted |-> quoted, eq |-> eq]

Other(kind) == [kind |-> kind, v |-> "", quoted |-> FALSE, eq |-> FALSE]

Decls ==
    { Decl(v, TRUE, eq) : v \in NdkVersionTexts, eq \in BOOLEAN } \cup
    { Decl(NonLiteral, FALSE, eq) : eq \in BOOLEAN }

NoScript == [exists |-> FALSE, lines |-> <<>>]

AppScripts ==
    { NoScript,
      [exists |-> TRUE, lines |-> << Other("plugins {"), Other("}") >>],
      [exists |-> TRUE, lines |-> << Other("android {"), Other("}") >>] } \cup
    { [exists |-> TRUE, lines |-> << Other("android {"), d, Other("}") >>] : d \in Decls } \cup
    { [exists |-> TRUE, lines |-> << Other("plugins {"), d, Other("}") >>] : d \in Decls }

\* Python: 'ndkVersion' in content.
HasNdkVersionText(script) ==
    \E i \in 1..Len(script.lines) : script.lines[i].kind = "ndkVersion"

\* re.sub(pattern, f'ndkVersion = "{V}"' / f'ndkVersion "{V}"', content): every
\* declaration the pattern matches becomes the quoted V.  isKts: the pattern
\* asks for the `=`; otherwise it asks for no `=`.
SubNdkVersion(lines, v, isKts) ==
    [ i \in 1..Len(lines) |->
        IF lines[i].kind = "ndkVersion" /\ lines[i].quoted /\ lines[i].eq = isKts
        THEN Decl(v, TRUE, isKts)
        ELSE lines[i] ]

\* re.sub(r'android\s*\{', 'android {\n    ndkVersion ...', content).
RECURSIVE AddAfterAndroid(_, _, _)
AddAfterAndroid(lines, v, isKts) ==
    IF lines = <<>> THEN <<>>
    ELSE IF Head(lines).kind = "android {"
         THEN << Head(lines), Decl(v, TRUE, isKts) >> \o AddAfterAndroid(Tail(lines), v, isKts)
         ELSE << Head(lines) >> \o AddAfterAndroid(Tail(lines), v, isKts)

\* main(), lines 1036-1070: the two scripts as the NDK step leaves them.  The
\* Kotlin script is written back in both branches; the Groovy script is
\* written back only in the branch that adds the declaration.
main_ndk_step(scripts, v) ==
    LET kts == scripts.kts
        gradle == scripts.gradle
    IN  IF kts.exists
        THEN [ scripts EXCEPT !.kts.lines =
                  IF HasNdkVersionText(kts) THEN SubNdkVersion(kts.lines, v, TRUE)
                  ELSE AddAfterAndroid(kts.lines, v, TRUE) ]
        ELSE IF gradle.exists
        THEN [ scripts EXCEPT !.gradle.lines =
                  IF HasNdkVersionText(gradle) THEN gradle.lines
                  ELSE AddAfterAndroid(gradle.lines, v, FALSE) ]
        ELSE scripts

InitRepair ==
    /\ MainIdle
    /\ unit = "main.ndk_step"
    /\ input \in [ required_ndk_version : NdkVersionTexts,
                   scripts : [kts : AppScripts, gradle : AppScripts] ]
    /\ output = <<>>

\* The NDK step of main() up to the rebuild.
NdkStep ==
    /\ unit = "main.ndk_step"
    /\ output = <<>>
    /\ output' = [scripts |-> main_ndk_step(input.scripts, input.required_ndk_version)]
    /\ UNCHANGED << unit, input >>
    /\ UNCHANGED mainVars

NextRepair == NdkStep

SpecRepair == InitRepair /\ [][NextRepair]_vars

(***************************************************************************)
(* plugin_helper.fix_build_gradle_kts.  ioErr: reading or writing a file   *)
(* raised.  The result: ret, the scripts as they are left, and bak, the    *)
(* content of the backup file.                                             *)
(***************************************************************************)
PinnedNdk == "27.0.12077973"

\* re.search(r'ndkVersion\s*=?\s*["\']([0-9.]+)["\']'): the quoted
\* declarations, with or without `=`.
PinMatches(lines) ==
    { i \in 1..Len(lines) : lines[i].kind = "ndkVersion" /\ lines[i].quoted }

\* re.sub of that pattern: every match becomes the pinned declaration.
SubPinned(lines, isKts) ==
    [ i \in 1..Len(lines) |->
        IF i \in PinMatches(lines) THEN Decl(PinnedNdk, TRUE, isKts) ELSE lines[i] ]

fix_build_gradle_kts(scripts, ioErr) ==
    LET is_kts == scripts.kts.exists
        script == IF is_kts THEN scripts.kts ELSE scripts.gradle
        content == script.lines
        m == PinMatches(content)
        current_version == content[CHOOSE i \in m : \A j \in m : i <= j].v
        new_content == IF m # {}
                       THEN IF current_version # PinnedNdk THEN SubPinned(content, is_kts)
                            ELSE content
                       ELSE AddAfterAndroid(content, PinnedNdk, is_kts)
        written == IF is_kts THEN [scripts EXCEPT !.kts.lines = new_content]
                   ELSE [scripts EXCEPT !.gradle.lines = new_content]
    IN  IF ~scripts.kts.exists /\ ~scripts.gradle.exists
        THEN [ret |-> FALSE, scripts |-> scripts, bak |-> NoScript]
        ELSE IF ioErr
        THEN [ret |-> FALSE, scripts |-> scripts, bak |-> NoScript]
        ELSE IF m = {} /\ new_content = content
        THEN [ret |-> FALSE, scripts |-> scripts, bak |-> script]
        ELSE [ret |-> TRUE, scripts |-> written, bak |-> script]

InitGradleKts ==
    /\ MainIdle
    /\ unit = "fix_build_gradle_kts"
    /\ input \in [ scripts : [kts : AppScripts, gradle : AppScripts] ]
    /\ output = <<>>

FixBuildGradleKts ==
    /\ unit = "fix_build_gradle_kts"
    /\ output = <<>>
    /\ \E ioErr \in BOOLEAN : output' = fix_build_gradle_kts(input.scripts, ioErr)
    /\ UNCHANGED << unit, input >>
    /\ UNCHANGED mainVars

NextGradleKts == FixBuildGradleKts

SpecGradleKts == InitGradleKts /\ [][NextGradleKts]_vars

(***************************************************************************)
(* plugin_helper.fix_vibration_plugin and the two files it writes.         *)
(* pubspec.yaml is a sequence of lines.  output holds pubspec and bak (the *)
(* files on disk), fetches (the exit statuses of the `flutter pub get`     *)
(* commands so far), raised (a file operation raised) and ret.             *)
(***************************************************************************)
MaxPubspecLines == 2

PinComment == "  # pinned to a compatible version"

PubspecLines ==
    { "name: app", "vibration: ^2.0.0", "vibration: ^3.1.3", "vibration: ^1.9.2",
      "dependency_overrides:", "vibration_platform_interface: ^0.1.0" }

Pubspecs ==
    { [exists |-> FALSE, lines |-> <<>>] } \cup
    { [exists |-> TRUE, lines |-> l] :
        l \in UNION { [1..n -> PubspecLines] : n \in 0..MaxPubspecLines } }

\* re.search / re.sub of r'vibration:\s.*'.
IsVibrationLine(l) == l \in {"vibration: ^2.0.0", "vibration: ^3.1.3", "vibration: ^1.9.2"}

\* Lines 262-281: the content with vibration pinned to ^3.1.3.
PinVibration(lines) ==
    IF \E i \in 1..Len(lines) : IsVibrationLine(lines[i])
    THEN [ i \in 1..Len(lines) |->
             IF IsVibrationLine(lines[i]) THEN "vibration: ^3.1.3" \o PinComment
             ELSE lines[i] ]
    ELSE IF \A i \in 1..Len(lines) : lines[i] # "dependency_overrides:"
    THEN lines \o << "", "dependency_overrides:", "vibration: ^3.1.3",
                     "vibration_platform_interface: ^0.1.0" >>
    ELSE lines

\* Line 302: content.replace('vibration: ^3.1.3', 'vibration: ^1.9.2').
RepinVibration(lines) ==
    [ i \in 1..Len(lines) |->
        IF lines[i] = "vibration: ^3.1.3" THEN "vibration: ^1.9.2"
        ELSE IF lines[i] = "vibration: ^3.1.3" \o PinComment
        THEN "vibration: ^1.9.2" \o PinComment
        ELSE lines[i] ]

\* For comparison: nothing is restored after the second failure.
RestoredPubspec_asLeft(pubspec, bak) == pubspec

\* Lines 313-317: pubspec.yaml is written from the backup.
RestoredPubspec(pubspec, bak) == bak

InitVibration ==
    /\ MainIdle
    /\ unit = "fix_vibration_plugin"
    /\ input \in [pubspec : Pubspecs, bak : {<<>>, <<"name: old">>}]
    /\ output = [pubspec |-> input.pubspec.lines, bak |-> input.bak, fetches |-> <<>>,
                 raised |-> FALSE]

VibrationReturn(ret, pubspec, bak, fetches, raised) ==
    /\ unit' = "fix_vibration_plugin.returned"
    /\ output' = [pubspec |-> pubspec, bak |-> bak, fetches |-> fetches, raised |-> raised,
                  ret |-> ret]

\* Lines 246-283: the backup and the first pin.  exc: the file operation that
\* raised.
VibrationPin ==
    /\ unit = "fix_vibration_plugin"
    /\ \E exc \in {"none", "read", "write"} :
          IF ~input.pubspec.exists
          THEN VibrationReturn(FALSE, output.pubspec, output.bak, <<>>, FALSE)
          ELSE IF exc = "read"
          THEN VibrationReturn(FALSE, output.pubspec, output.bak, <<>>, TRUE)
          ELSE IF exc = "write"
          THEN VibrationReturn(FALSE, output.pubspec, output.pubspec, <<>>, TRUE)
          ELSE /\ unit' = "fix_vibration_plugin.fetch1"
               /\ output' = [output EXCEPT !.bak = output.pubspec,
                                           !.pubspec = PinVibration(output.pubspec)]
    /\ UNCHANGED input
    /\ UNCHANGED mainVars

\* Lines 285-306: the first fetch; when it fails, the second pin.
VibrationFetch1 ==
    /\ unit = "fix_vibration_plugin.fetch1"
    /\ \E rc \in {0, 1}, exc \in BOOLEAN :
          LET fetches == Append(output.fetches, rc)
          IN  IF run_command(rc, <<>>, TRUE, FALSE, FALSE).ok
              THEN VibrationReturn(TRUE, output.pubspec, output.bak, fetches, FALSE)
              ELSE IF exc
              THEN VibrationReturn(FALSE, output.pubspec, output.bak, fetches, TRUE)
              ELSE /\ unit' = "fix_vibration_plugin.fetch2"
                   /\ output' = [output EXCEPT !.fetches = fetches,
                                               !.pubspec = RepinVibration(output.pubspec)]
    /\ UNCHANGED input
    /\ UNCHANGED mainVars

\* Lines 308-323: the second fetch; when it fails too, the restore.
VibrationFetch2 ==
    /\ unit = "fix_vibration_plugin.fetch2"
    /\ \E rc \in {0, 1}, exc \in BOOLEAN :
          LET fetches == Append(output.fetches, rc)
          IN  IF run_command(rc, <<>>, TRUE, FALSE, FALSE).ok
              THEN VibrationReturn(TRUE, output.pubspec, output.bak, fetches, FALSE)
              ELSE IF exc
              THEN VibrationReturn(FALSE, output.pubspec, output.bak, fetches, TRUE)
              ELSE VibrationReturn(FALSE, RestoredPubspec(output.pubspec, output.bak),
                                   output.bak, fetches, FALSE)
    /\ UNCHANGED input
    /\ UNCHANGED mainVars

NextVibration == VibrationPin \/ VibrationFetch1 \/ VibrationFetch2

SpecVibration == InitVibration /\ [][NextVibration]_vars

(***************************************************************************)
(* java_gradle_fix: the Gradle version for a Java major version.  A Gradle *)
(* version is the sequence of its numbers ("8.0.2" is <<8, 0, 2>>).        *)
(***************************************************************************)
MinJava == 8
MaxJava == 25

JavaMajors == MinJava..MaxJava

\* compatibility_map and its keys in sorted order.
compatibility_keys == <<8, 11, 17, 21>>

compatibility_map(key) ==
    CASE key = 8 -> <<6, 7, 1>>
      [] key = 11 -> <<7, 6, 1>>
      [] key = 17 -> <<8, 0, 2>>
      [] OTHER -> <<8, 4>>

\* The loop of get_compatible_gradle_version from the i-th key on.
RECURSIVE CompatibleFrom(_, _)
CompatibleFrom(java_version, i) ==
    IF i > Len(compatibility_keys) THEN <<7, 6, 1>>
    ELSE IF java_version <= compatibility_keys[i] THEN compatibility_map(compatibility_keys[i])
    ELSE CompatibleFrom(java_version, i + 1)

get_compatible_gradle_version(java_version) == CompatibleFrom(java_version, 1)

\* Lines 85-96: the version fix_java_gradle_compatibility chooses.
chosen_gradle_version(java_version) ==
    IF java_version >= 17 THEN <<8, 0, 2>>
    ELSE IF java_version >= 11 THEN <<7, 6, 1>>
    ELSE <<6, 7, 1>>

GradleVersions == { <<6, 7, 1>>, <<7, 6, 1>>, <<8, 0, 2>>, <<8, 4>>, <<7, 5>> }

\* gradle-wrapper.properties: absent (<<>>), or the version of its distributionUrl.
WrapperFiles == { <<>> } \cup GradleVersions

InitJavaGradle ==
    /\ MainIdle
    /\ unit = "fix_java_gradle_compatibility"
    /\ input \in [major_version : JavaMajors, wrapper : WrapperFiles]
    /\ output = <<>>

\* Lines 76-126: the wrapper file is written (or created) with the chosen
\* version; an existing file is copied to .javafix.bak first.
FixJavaGradle ==
    /\ unit = "fix_java_gradle_compatibility"
    /\ output = <<>>
    /\ output' = [ wrapper |-> chosen_gradle_version(input.major_version),
                   bak |-> input.wrapper ]
    /\ UNCHANGED << unit, input >>
    /\ UNCHANGED mainVars

NextJavaGradle == FixJavaGradle

SpecJavaGradle == InitJavaGradle /\ [][NextJavaGradle]_vars

(***************************************************************************)
(* main(): the last step of the cascade (lines 1138-1174) on its own, one  *)
(* command at a time.  output.android is what is at the path android/:     *)
(* "original", "created" (by `flutter create`) or "none"; output.backup is *)
(* what is at android_backup_<timestamp>: "none" or "original";            *)
(* output.build is the result of the build that follows.                   *)
(***************************************************************************)
InitRegen ==
    /\ MainIdle
    /\ unit = "regen"
    /\ input \in [verbose : BOOLEAN, text : PrintedSamples]
    /\ output = [android |-> "original", backup |-> "none", ran |-> <<>>, build |-> NoBuild]

RegenReturn(code) ==
    /\ unit' = "regen.returned"
    /\ output' = [output EXCEPT !.ran = Append(output.ran, "return")] @@ [ret |-> code]

\* Line 1144: shutil.move(android_dir, android_backup); a failure is caught by
\* the `except` of line 1153 and main() goes on to the error log.
RegenMove ==
    /\ unit = "regen"
    /\ \E moveOk \in BOOLEAN :
          IF moveOk
          THEN /\ unit' = "regen.create"
               /\ output' = [output EXCEPT !.android = "none", !.backup = "original",
                                           !.ran = Append(output.ran, "shutil.move")]
          ELSE /\ unit' = "regen.log"
               /\ output' = [output EXCEPT !.ran = Append(output.ran, "shutil.move raised")]
    /\ UNCHANGED input
    /\ UNCHANGED mainVars

\* Lines 1146-1147: `flutter create --platforms=android .`, whose result is not
\* looked at, and the test for android/.  created: the command made android/.
RegenCreate ==
    /\ unit = "regen.create"
    /\ \E rc \in {0, 1}, created \in BOOLEAN :
          /\ (rc = 0 => created)
          /\ run_command(rc, <<>>, TRUE, FALSE, FALSE).ok \in BOOLEAN
          /\ output' = [output EXCEPT !.android = IF created THEN "created" ELSE "none",
                                      !.ran = Append(output.ran, "flutter create")]
          /\ unit' = IF created THEN "regen.build" ELSE "regen.log"
    /\ UNCHANGED input
    /\ UNCHANGED mainVars

\* Lines 1149-1152: `flutter pub get` and the build.
RegenBuild ==
    /\ unit = "regen.build"
    /\ \E r \in BuildResults(input.verbose, retry_no_clean, input.text) :
          IF Truthy(r.ret)
          THEN /\ unit' = "regen.returned"
               /\ output' = [output EXCEPT !.ran = output.ran \o <<"flutter pub get", "build">>,
                                           !.build = r]
                            @@ [ret |-> 0]
          ELSE /\ unit' = "regen.log"
               /\ output' = [output EXCEPT !.ran = output.ran \o <<"flutter pub get", "build">>,
                                           !.build = r]
    /\ UNCHANGED input
    /\ UNCHANGED mainVars

\* Lines 1156-1174: the error log and `return 1`.
RegenLog ==
    /\ unit = "regen.log"
    /\ RegenReturn(1)
    /\ UNCHANGED input
    /\ UNCHANGED mainVars

NextRegen == RegenMove \/ RegenCreate \/ RegenBuild \/ RegenLog

SpecRegen == InitRegen /\ [][NextRegen]_vars

(***************************************************************************)
(* Properties.                                                             *)
(***************************************************************************)
\* Where main() is: every step of Next moves it forward.
Position ==
    CASE pc = "check_flutter" -> 0
      [] pc = "check_sdk" -> 1
      [] pc = "check_project" -> 2
      [] pc = "prepare_output" -> 3
      [] pc = "mode" -> 4
      [] pc = "listed" -> 5
      [] pc = "prebuild" -> 6
      [] pc = "build0" -> 7
      [] pc = "classify" -> 8
      [] pc = "consider" -> 9 + 2 * Rank(cur)
      [] pc = "retry" -> 10 + 2 * Rank(cur)
      [] pc = "except" -> 30
      [] OTHER -> 31

Count(seq, x) == Cardinality({i \in DOMAIN seq : seq[i] = x})

Increasing(seq) ==
    \A i \in DOMAIN seq : \A j \in DOMAIN seq : i < j => Rank(seq[i]) < Rank(seq[j])

InCascade == pc \in {"consider", "retry"}

\* The run went through the emulator path and built at least once.
RunPathDone == pc = "done" /\ builds >= 1

\* C1: once the build phase is reached the cascade terminates: every step of
\* main() moves it forward through a finite sequence of positions and it never
\* stops before it returns; each of the six repairs is applied at most once, the
\* steps are considered in an order that never goes back, and the build driver
\* is invoked at most 1 + 6 times.
C1_Bounded ==
    /\ \A step \in CascadeSteps : Count(applied, step) <= 1 /\ Count(retried, step) <= 1
    /\ Increasing(considered)
    /\ builds <= 1 + Cardinality(CascadeSteps)
    /\ (builds >= 1 => builds = 1 + Len(retried))
    /\ (pc # "done" => ENABLED Next)

C1_CascadeTerminates == [](C1_Bounded) /\ [][Position' > Position]_vars

\* C1 witness: a run that made the initial build and four retries, the last one
\* after the regeneration, and returned.
C1_Witness ==
    /\ pc = "done"
    /\ builds = 5
    /\ retried = <<"kotlin", "java", "plugin", "regen">>

\* C2 (as stated): in the emulator path the exit status is 0 exactly when a build
\* reported success, nothing runs after a success, and when every build failed
\* main() ends in the exhausted state, where it runs the block that writes the
\* error log (a failure of the write itself is caught there), with status 1.
C2_Claim ==
    /\ (RunPathDone => (exitCode = 0 <=> buildOk))
    /\ (buildOk => pc = "done" /\ Truthy(lastBuild.ret))
    /\ (RunPathDone /\ ~buildOk =>
            /\ cur = "exhausted"
            /\ logAttempts = 1
            /\ log.kind \in {"exhausted", "none"}
            /\ exitCode = 1)

\* C3: repairs are applied in the order NDK, Kotlin DSL, Java/Gradle, plugin,
\* Gradle cache, regeneration: of two repairs applied in one run the one earlier
\* in this order is applied first, so the regeneration comes after all others.
C3_RepairOrder ==
    /\ Increasing(applied)
    /\ \A i \in DOMAIN applied : applied[i] = "regen" => i = Len(applied)

\* C3 witness: three repairs and then the regeneration were applied.
C3_Witness == applied = <<"kotlin", "java", "plugin", "regen">>

\* C4 (as stated): at every point of the cascade where a step is considered, the
\* number of invocations of the build driver is 1 plus the number of labels in
\* tried_fixes.
C4_Claim == pc = "consider" => builds = 1 + Len(tried_fixes)

\* C4 (amended): where the cascade considers a step, the number of invocations
\* of the build driver is 1 plus the number of labels in tried_fixes, plus 1
\* once the regeneration, which records no label, has retried the build; between
\* the recording of a fix and its retry the count is one less.
C4_Amended ==
    LET regen == Count(retried, "regen")
    IN  /\ (pc = "consider" => builds = 1 + Len(tried_fixes) + regen)
        /\ (pc = "retry" /\ cur # "regen" => builds = Len(tried_fixes))
        /\ (pc = "retry" /\ cur = "regen" => builds = 1 + Len(tried_fixes))
        /\ (InCascade => tried_fixes =
               [i \in 1..Len(tried_fixes) |->
                   FixLabel((IF pc = "retry" /\ cur # "regen"
                             THEN Append(retried, cur) ELSE retried)[i])])

\* C4 witness: three fixes were recorded and retried, the cache step is next.
C4_Witness ==
    /\ pc = "consider" /\ cur = "cache"
    /\ Len(tried_fixes) = 3
    /\ builds = 4

\* C5 (as stated): the text main() scans is what the failing launch printed: a
\* signature in that output sets the corresponding issue flag.
C5_Claim ==
    InCascade =>
        /\ (java_gradle_error_of(printed) => flags.java_gradle_error)
        /\ (detect_gradle_cache_issue(printed) => flags.gradle_cache_error)
        /\ (kotlin_dsl_error_of(printed) => flags.kotlin_dsl_error)
        /\ (ndk_version_error_of(printed) => flags.ndk_version_error)

\* C6 (as stated): a captured text that holds "requires Android NDK <version>"
\* selects the NDK repair, with the version of the message as its target.
C6_Claim ==
    (considered # <<>> /\ NdkMatches(build_error_output) # {}) =>
        /\ applied = <<"ndk">>
        /\ required_ndk_version = required_ndk_version_of(build_error_output)
        /\ required_ndk_version \in NdkVersionTexts

\* C7 (as stated): when the first build fails and no issue matches, so that no
\* targeted repair is applied, the regeneration is still run before the log is
\* written.
C7_Claim ==
    (cur = "exhausted" /\ \A i \in DOMAIN applied : applied[i] \in {"plugin", "regen"})
        => Count(applied, "regen") = 1

\* C8 (as stated): an error of a repair never aborts the cascade: the handler of
\* main() is not entered from the cascade, and a run in which no build succeeded
\* has considered every step.
C8_Claim ==
    /\ (pc = "except" => considered = <<>>)
    /\ (RunPathDone /\ ~buildOk => Len(considered) = Cardinality(CascadeSteps))

\* The configuration patchers main() calls.
Patchers ==
    { "check_flutter_plugins", "fix_build_gradle_kts", "auto_fix_gradle_issues",
      "clean_gradle_cache", "fix_gradle_plugin_loader_issue", "fix_kotlin_dsl_issues",
      "run_java_gradle_fix", "fix_vibration_plugin", "build_apk" }

\* C9: when the Flutter, SDK or project check fails, main() returns 1 at once:
\* no patcher is called, no device is enumerated or started, no build is run.
C9_MissingToolAborts ==
    failedCheck # "none" =>
        /\ pc = "done" /\ exitCode = 1
        /\ calls \cap Patchers = {}
        /\ calls \subseteq
              {"check_flutter_installation", "check_android_sdk", "check_project_directory"}
        /\ emulators = 0 /\ selected = 0
        /\ builds = 0 /\ lastBuild = NoBuild

\* C9 witness: the project check failed after the two others passed.
C9_Witness ==
    /\ failedCheck = "project"
    /\ pc = "done"
    /\ calls = {"check_flutter_installation", "check_android_sdk", "check_project_directory"}

\* C10 (as stated): --list with no device available returns 1 and changes
\* nothing on the file system.
C10_Claim ==
    (pc = "done" /\ args.list /\ ~args.build_apk /\ ~args.fix_gradle
        /\ failedCheck = "none" /\ emulators = 0)
        => exitCode = 1 /\ mutated = {}

\* C11 (as stated): in --build-apk mode main() returns 0 only if the
\* `flutter build apk` command of this run exited with status 0; when it exits
\* with another status the exit code of main() is 1.
C11_Claim ==
    (pc = "done" /\ args.build_apk /\ failedCheck = "none" /\ apkRc # -1) =>
        /\ (exitCode = 0 => apkRc = 0)
        /\ (apkRc # 0 => exitCode = 1)

\* C12 (as stated): the log written in the exhausted state holds the labels of
\* the fixes tried in this run and the text of the failed build: when the failing
\* launch printed something, the error-message section of the log is not empty.
C12_Claim ==
    log.kind = "exhausted" =>
        /\ log.tried = tried_fixes
        /\ (printed # <<>> => log.text # <<>>)

\* C13: in every run of main() the log-writing block is executed at most once,
\* a log file exists only in runs that returned 1, and a run in which the write
\* failed has returned 1 as well.
C13_OneLogOnFailure ==
    /\ logAttempts <= 1
    /\ (logAttempts = 1 => pc = "done" /\ exitCode = 1)
    /\ (log # NoLog => logAttempts = 1)
    /\ ("android_emulator_error_log" \in mutated <=> log # NoLog)
    /\ (pc = "done" /\ exitCode = 0 => log = NoLog)

\* C13 witness: the log could not be written and the run returned 1.
C13_Witness ==
    /\ pc = "done"
    /\ logAttempts = 1
    /\ log = NoLog
    /\ exitCode = 1

\* C19 (as stated): for every command and every combination of show_output and
\* show_progress, run_command returns a pair whose success flag is false when
\* the command exits with a non-zero status, and (False, None) on a timeout.
C19_Claim ==
    (unit = "run_command" /\ output # <<>>) =>
        /\ output.ok \in BOOLEAN
        /\ (input.exc = "none" /\ input.rc # 0 => ~output.ok)
        /\ (input.exc = "timeout" => output = [ok |-> FALSE, out |-> None])

\* C17 (as stated): with a non-empty list of n devices and an --emulator value
\* that is a decimal integer k, select_emulator returns the k-th device when
\* 1 <= k <= n and None when k is outside 1..n, and does not raise.
C17_Claim ==
    (unit \in {"select_emulator.returned", "select_emulator.raised"}
        /\ input.names # <<>> /\ ParseInt(input.emulator).ok) =>
        LET k == ParseInt(input.emulator).value
        IN  /\ unit = "select_emulator.returned"
            /\ (k \in 1..Len(input.names) => output.ret = k)
            /\ (k \notin 1..Len(input.names) => output.ret = 0)

\* C17 (amended): the same when no device is named like the --emulator value;
\* when devices have that value as their name, the first of them is returned,
\* whatever k is.
C17_Amended ==
    (unit \in {"select_emulator.returned", "select_emulator.raised"}
        /\ input.names # <<>> /\ ParseInt(input.emulator).ok) =>
        LET k == ParseInt(input.emulator).value
            named == { i \in 1..Len(input.names) : input.names[i] = input.emulator }
        IN  /\ unit = "select_emulator.returned"
            /\ output.prompts = 0
            /\ (named = {} /\ k \in 1..Len(input.names) => output.ret = k)
            /\ (named = {} /\ k \notin 1..Len(input.names) => output.ret = 0)
            /\ (named # {} => output.ret \in named /\ \A j \in named : output.ret <= j)

\* C17 witness: "2" on a list of three devices none of which is named "2".
C17_Witness ==
    /\ unit = "select_emulator.returned"
    /\ input.emulator = <<"2">>
    /\ input.names = << <<"a">>, <<"a", "1">>, <<"1">> >>
    /\ output.ret = 2

\* C18 (as stated): select_emulator returns None, without raising, on every
\* invalid input and on interrupt: an invalid --emulator value gives None, and at
\* the prompt an answer that is not a number in range ends the selection with
\* None, so that the prompt is never shown again after a rejected answer.
C18_Claim ==
    /\ unit # "select_emulator.raised"
    /\ (unit = "select_emulator.prompt" => output.prompts = 0)
    /\ (unit = "select_emulator.returned" /\ output.prompts > 0 => output.ret = 0)
    /\ (unit = "select_emulator.returned" /\ input.names # <<>> /\ input.emulator # <<>>
           /\ select_by_argument(input.emulator, input.names) = 0 => output.ret = 0)

\* C20 (as stated): after any number of calls of check_android_sdk and
\* setup_android_paths no tool directory occurs more than once in PATH, and a
\* call after the first one leaves PATH as it found it.
C20_Claim ==
    unit = "probe" =>
        /\ \A d \in ToolDirs : Occurrences(output.PATH, d) <= 1
        /\ (output.calls >= 2 => output.PATH = output.before)

\* C14 (as stated): applying the same patch twice in a row leaves every patched
\* file, after the second application, as the first application left it.
C14_Claim ==
    (unit = "ndk" /\ Len(output.ops) >= 2
        /\ output.ops[Len(output.ops)] = output.ops[Len(output.ops) - 1])
        => output.files = output.before

\* C15 (as stated): after a patch that modified a file, the .bak file of that
\* file exists and holds what the file held just before the patch.
C15_Claim ==
    (unit = "ndk" /\ output.ops # <<>>) =>
        /\ ("local.properties" \in output.modified_files
               => output.baks.lp = output.before.lp)
        /\ ("app/build.gradle" \in output.modified_files
               => output.baks.bg = output.before.bg)

\* C16 (as stated): when local.properties holds `ndk.dir=<path>/ndk/<V1>`, with
\* or without a newline after it, and app/build.gradle holds `ndkVersion "<V2>"`
\* with V1 # V2, check_and_fix_ndk_versions leaves the build script with
\* `ndkVersion "<V1>"` and leaves no ndk.dir line in local.properties.
C16_Claim ==
    (unit = "ndk" /\ output.ops = <<"check_and_fix_ndk_versions">>) =>
        LET lp == output.before.lp
            bg == output.before.bg
            dirs == { i \in 1..Len(lp.lines) : lp.lines[i].kind = "ndk.dir" }
        IN  (/\ lp.exists /\ bg.exists
             /\ Cardinality(dirs) = 1
             /\ \A i \in dirs : lp.lines[i].v # NoVersion
             /\ gradle_ndk_version_of(bg) # NoVersion
             /\ \A i \in dirs : lp.lines[i].v # gradle_ndk_version_of(bg))
            => /\ \A i \in dirs : gradle_ndk_version_of(output.files.bg) = lp.lines[i].v
               /\ ~HasKind(output.files.lp, {"ndk.dir"})

\* C21 (as stated): boot_emulator returns without issuing the start command
\* only if the named device is running; when another emulator is running, or
\* listed by adb in a state that is not ready, and the named one is not, the
\* named one is started.
C21_Claim ==
    unit = "boot_emulator.returned" =>
        /\ (~output.started => input.namedRunning)
        /\ (~input.namedRunning /\ input.otherAdb # "none" => output.started)

\* How far boot_emulator is: every step moves it forward.
BootPosition ==
    CASE unit = "boot_emulator" -> 0
      [] unit = "boot_emulator.start" -> 1
      [] unit = "boot_emulator.poll" -> 2 + output.elapsed
      [] OTHER -> 3 + MaxWait + MaxPollStep

\* C22: boot_emulator always terminates: every step moves it forward through
\* a finite sequence of positions and it never stops before it returns; the
\* poll ends when the device is ready or when the wait budget is used up; it
\* returns True in both cases, as it does for an emulator that runs already,
\* and returns False only when the start command failed.
C22_Returns ==
    /\ (unit # "boot_emulator.returned" => ENABLED NextBoot)
    /\ (unit = "boot_emulator.poll" => output.elapsed < MaxWait + MaxPollStep)
    /\ (unit = "boot_emulator.returned" =>
           /\ (output.timedOut => output.elapsed >= MaxWait /\ output.ret)
           /\ (~output.ret <=> (output.started /\ input.startRc # 0))
           /\ output.ret = boot_emulator(is_running(input), input.startRc).ok)

C22_BootTerminates == [](C22_Returns) /\ [][BootPosition' > BootPosition]_vars

\* C22 witness: the wait budget was used up and boot_emulator returned True.
C22_Witness ==
    /\ unit = "boot_emulator.returned"
    /\ output.timedOut
    /\ output.ret
    /\ output.elapsed >= MaxWait

\* C23 (as stated): build_and_run_android_emulator stops with False at the
\* first failing step: when `flutter clean` (if it is run) or `flutter pub get`
\* exits with a non-zero status, for either value of verbose, no `flutter run`
\* is issued in that invocation and False is returned.
C23_Claim ==
    (unit = "build_and_run_android_emulator" /\ output # <<>>) =>
        LET cleanFailed == "flutter clean" \in output.ran /\ input.env.cleanRc # 0
            pubFailed == "flutter pub get" \in output.ran /\ input.env.pubRc # 0
        IN  (cleanFailed \/ pubFailed) =>
                /\ "flutter run" \notin output.ran
                /\ ~Truthy(output.ret)

\* How far build_apk is: two steps for each build command.
ApkPosition ==
    CASE unit = "build_apk" -> 2 * output.builds
      [] unit = "build_apk.build" -> 2 * output.builds + 1
      [] OTHER -> 2 * MaxApkBuilds + 2

\* C24: build_apk terminates for every sequence of outcomes of the build
\* command: every step moves it forward, it never stops before it returns, and
\* it issues the build command once: a failed build is reported to it without
\* its text, so the call of build_apk after an NDK fix is never made, also when
\* the build fails with "requires Android NDK" in what it prints.
C24_Returns ==
    (unit \in {"build_apk", "build_apk.build", "build_apk.returned"}) =>
        /\ (unit # "build_apk.returned" => ENABLED NextApk)
        /\ (unit = "build_apk" => output.builds = 0)
        /\ (unit = "build_apk.returned" => output.builds = 1)

C24_ApkTerminates == [](C24_Returns) /\ [][ApkPosition' > ApkPosition]_vars

\* C24 witness: the build command failed, printing "requires Android NDK", and
\* build_apk has returned.
C24_Witness ==
    /\ unit = "build_apk.returned"
    /\ output.rcs[1] # 0
    /\ Contains(input.text, NdkRequiresMsg)
    /\ input.verbose
    /\ ~output.ret

ScriptInUse(scripts) == IF scripts.kts.exists THEN scripts.kts ELSE scripts.gradle

\* The script declares ndkVersion v: it has a quoted declaration of v.
Declares(script, v) ==
    \E i \in 1..Len(script.lines) :
        /\ script.lines[i].kind = "ndkVersion"
        /\ script.lines[i].quoted
        /\ script.lines[i].v = v

\* The script has an `android {` block and at most a quoted declaration written
\* in the syntax of its language.
PlainScript(script, isKts) ==
    /\ script.exists
    /\ \E i \in 1..Len(script.lines) : script.lines[i].kind = "android {"
    /\ \A i \in 1..Len(script.lines) :
          script.lines[i].kind = "ndkVersion" =>
              (script.lines[i].quoted /\ script.lines[i].eq = isKts)

\* C25 (as stated): after the NDK step of main() has run with the required
\* version V, the app build script on disk declares ndkVersion V, for
\* build.gradle.kts and for build.gradle, whether the script had an ndkVersion
\* declaration before or not.
C25_Claim ==
    (unit = "main.ndk_step" /\ output # <<>>) =>
        LET before == ScriptInUse(input.scripts)
            after == ScriptInUse(output.scripts)
        IN  PlainScript(before, input.scripts.kts.exists) =>
                Declares(after, input.required_ndk_version)

\* The ndkVersion declarations of a script.
Declarations(script) ==
    { i \in 1..Len(script.lines) : script.lines[i].kind = "ndkVersion" }

\* C29 (as stated): whenever fix_build_gradle_kts returns True, the app build
\* script holds exactly one ndkVersion declaration and its value is
\* "27.0.12077973", whatever the script held before: no declaration, a quoted
\* version, or a declaration that is not a quoted version.
C29_Claim ==
    (unit = "fix_build_gradle_kts" /\ output # <<>> /\ output.ret) =>
        LET after == ScriptInUse(output.scripts)
        IN  /\ Cardinality(Declarations(after)) = 1
            /\ Declares(after, PinnedNdk)

RECURSIVE VersionLeq(_, _)
VersionLeq(a, b) ==
    IF a = <<>> THEN TRUE
    ELSE IF b = <<>> THEN FALSE
    ELSE IF Head(a) # Head(b) THEN Head(a) < Head(b)
    ELSE VersionLeq(Tail(a), Tail(b))

\* C28 (as stated): for every Java major version from 8 to 25 the Gradle
\* version fix_java_gradle_compatibility writes into the wrapper is
\* get_compatible_gradle_version of that major version, and the chosen version
\* never decreases as the Java major version increases.
C28_Claim ==
    (unit = "fix_java_gradle_compatibility" /\ output # <<>>) =>
        /\ output.wrapper = get_compatible_gradle_version(input.major_version)
        /\ \A j \in JavaMajors :
              j <= input.major_version =>
                  VersionLeq(chosen_gradle_version(j), output.wrapper)

\* C30 (as stated): regenerating the platform never destroys it: from the move
\* on, android_backup_<timestamp> holds the original directory for the rest of
\* the run, and when main() returns there is an android directory at the
\* original path again.
C30_Claim ==
    (unit \in {"regen", "regen.create", "regen.build", "regen.log", "regen.returned"}) =>
        /\ (output.android = "original" \/ output.backup = "original")
        /\ (unit = "regen.returned" => output.android # "none")

====
